---- MODULE Spec2Model ----
(***************************************************************************)
(* A model of the acquisition engine of tmdb_etl:                          *)
(*   - AsyncTMDBClient._rate_limit and AsyncTMDBClient._request            *)
(*     (src/etl/tmdb_client.py),                                           *)
(*   - the discovery strategies (src/etl/strategies/*.py).                 *)
(*                                                                         *)
(* Time is counted in ticks, TicksPerSecond ticks to the second.  The      *)
(* numeric limits of the program (MAX_CONCURRENT = 18,                     *)
(* REQUESTS_PER_SECOND = 45, MAX_PAGES = 500, ITEMS_PER_PAGE = 20) are     *)
(* parameters of the algorithms; the model keeps the algorithms and runs   *)
(* them at small values of these parameters, so that every limit is        *)
(* reached within the explored states.                                     *)
(*                                                                         *)
(* Specifications:                                                         *)
(*   SpecRate  concurrent callers of _rate_limit on one client             *)
(*   SpecReq   a batch of concurrent _request calls on one client          *)
(*   SpecDisc  one discovery run of one strategy (Direct, Segmented,       *)
(*             BulkExport, series discover) against one upstream content   *)
(***************************************************************************)
EXTENDS Integers, Sequences, FiniteSets, TLC

\* ------------------------------------------------------------------ bounds
\* AsyncTMDBClient.MAX_CONCURRENT (18) and REQUESTS_PER_SECOND (45), scaled.
MAX_CONCURRENT == 2
REQUESTS_PER_SECOND == 2
\* Resolution and horizon of the clock.
TicksPerSecond == 1
MaxTime == 3
\* Concurrent direct callers of _rate_limit (SpecRate), concurrent _request
\* calls of a batch (SpecReq), largest integer Retry-After in seconds.
NumCallers == 3
NumTasks == 2
MaxRetryAfter == 1
\* MAX_PAGES (500) and ITEMS_PER_PAGE (20) of the discover strategies and the
\* batch of 50 page tasks of get_series_ids, scaled.
MAX_PAGES == 2
ITEMS_PER_PAGE == 2
SERIES_BATCH == 1
\* The explored discovery inputs: the year range, the first ID of an older
\* year's listing, the longest listing, the longest snapshot, its popularity
\* values and the min_popularity filter.
year_from == 2020
year_to == 2021
MaxStart == 5
MaxListing == 5
MaxSnapshot == 2
MaxPopularity == 2
min_popularity == 1

\* The invocations of SeriesLoader.run() explored.
MaxRuns == 2

\* The longest list of season rows given to the seasons step by itself.
MaxSeasonRows == 3

\* The extract() calls explored, over all loader objects.
MaxExtracts == 4

\* batch_size of the season gathers (100) and of the translation gathers
\* (200), scaled, and the longest list given to fetch_series_full_data.
SEASON_BATCH_SIZE == 2
TRANSLATION_BATCH_SIZE == 2
MaxSeries == 2

\* The HTTP requests of one stage explored.
MaxHttp == 3

\* max_retries of _download_export (7), scaled; the days that pass and the
\* runs of the export download explored.
max_retries == 2
MaxDays == 1
MaxExports == 2

VARIABLES
    clock,          \* time.time() / the event loop's clock, in ticks
    request_times,  \* AsyncTMDBClient.request_times
    rl,             \* SpecRate: each direct caller's position in _rate_limit
    grants,         \* SpecRate history: times at which _rate_limit returned
    semaphore,      \* AsyncTMDBClient.semaphore (its free value)
    task,           \* SpecReq: each top-level _request call's state
    strategy,       \* SpecDisc: the strategy of the run
    target_count,   \* the target_count given to the strategy's constructor
    catalog,        \* upstream: the listing of the unpartitioned query
    listing,        \* upstream: the listing of each year's query
    snapshot,       \* upstream: the lines of the daily export file
    dpc,            \* the run's position in get_movie_ids / get_series_ids
    year_pos,       \* Segmented: index into years of the year in progress
    next_page,      \* series discover: first page of the batch in progress
    pages,          \* state of the page fetch tasks of the current gather
    requested,      \* history: _fetch_page calls made, by partition and page
    movie_ids,      \* the list being accumulated (movie_ids / series_ids)
    seen_ids,       \* DiscoverSegmentedStrategy.seen_ids
    output,         \* the list returned by the run
    fetch_failed,   \* history: some page task of the run returned None
    store,          \* SpecLoad: the committed content of the database
    db,             \* the database as the loader's open transaction sees it
    lpc,            \* the loader's position in run()
    data,           \* the row set transform() returns in this invocation
    raised,         \* an exception is propagating out of the `with self` block
    season_id_map,  \* _load_all_tables: (content_id, season_number) -> id
    episode_id_map, \* _load_all_tables: (season_id, episode_number) -> id
    report,         \* the counts the loader has printed in this invocation
    dropped,        \* history: child rows left out for a missing parent key
    commits,        \* conn.commit() calls of this invocation
    rollbacks,      \* conn.rollback() calls of this invocation
    runs,           \* invocations of run() so far
    store_before,   \* history: the store when this invocation began
    upstream,       \* the row set every invocation yields, if it never changes
    gpc,            \* SpecGates: each loader object's position in extract()
    gclient,        \* each loader object's self.client / self.async_client
    clients_made,   \* AsyncTMDBClient objects constructed so far
    loops,          \* asyncio.run() invocations so far
    gate_use,       \* history: (client, asyncio.run) pairs, gates of the
                    \* client used inside that run
    extract_calls,  \* extract() calls so far
    load_episodes,  \* SpecFan: SeriesDiscoverStrategy.load_episodes
    series_ids,     \* the list given to fetch_series_full_data
    fpc,            \* position in fetch_series_full_data
    ftasks,         \* the tasks of the gather in progress
    fqueue,         \* season_tasks / episode_translation_tasks not yet issued
    series_data,    \* the series fetched, in order
    episodes_map,   \* keys of episodes_map, in insertion order
    returned,       \* history: episodes returned by a season fetch
    season_requests,      \* history: _fetch_season_episodes calls, by pair
    translation_requests, \* history: _fetch_episode_translations calls
    written,        \* history: translation results written to episode objects
    opc,            \* SpecOrch: position of run_all
    load_persons,   \* the load_persons argument of run_all
    started,        \* history: the stages run_stage was called for
    errors,         \* ETLOrchestrator.errors, as the names of the stages
    success_count,  \* success_count of run_dictionaries
    start_time,     \* ETLOrchestrator.start_time
    wall,           \* time.time()
    final_report,   \* what _print_final_report printed, if it did
    run_result,     \* what run_all returned, if it did
    raised_in,      \* history: the stages whose loader_func raised
    cfg_kind,       \* SpecConfig: the loader run by the stage
    cfg_token,      \* TMDB_BEARER_TOKEN is set
    cfg_strategy,   \* the strategy name given to the loader
    cpc,            \* position of the stage
    cfg_conn,       \* the loader's database transaction
    cfg_raising,    \* an exception is leaving the `with self` block
    http_sent,      \* history: HTTP requests the loader issued
    rows_written,   \* rows written inside the transaction
    stage_failed,   \* run_stage recorded the stage in self.errors
    today,          \* SpecExport: the day datetime.now() falls on
    cache,          \* the dates whose export file exists in data_dir
    partial,        \* the dates whose file was cut short by a failed download
    epc,            \* position of get_movie_ids / get_filtered_ids
    days_back,      \* the loop variable of _download_export
    probes,         \* history: the requests of this run, date and answer
    cache_before,   \* history: cache when this run began
    export_file,    \* what _download_export returned: <<date>> or <<>>
    export_raised,  \* get_movie_ids raised RuntimeError
    export_runs,    \* runs so far
    kpc,            \* SpecKeyMap: position of the seasons step
    key_rows,       \* data["seasons"] given to the step
    key_before,     \* history: the seasons table when the step began
    key_table,      \* the seasons table
    key_map,        \* season_id_map of the step
    disc_runs,      \* get_movie_ids() calls begun on the strategy object
    first_output    \* history: what the first call returned, <<ids>> or <<>>

clientVars == <<clock, request_times, rl, grants, semaphore, task>>
discVars == <<strategy, target_count, catalog, listing, snapshot, dpc,
              year_pos, next_page, pages, requested, movie_ids, seen_ids,
              output, fetch_failed>>
loadVars == <<store, db, lpc, data, raised, season_id_map, episode_id_map,
              report, dropped, commits, rollbacks, runs,
              store_before, upstream>>
gateVars == <<gpc, gclient, clients_made, loops, gate_use, extract_calls>>
fanVars == <<load_episodes, series_ids, fpc, ftasks, fqueue, series_data,
             episodes_map, returned, season_requests, translation_requests,
             written>>
orchVars == <<opc, load_persons, started, errors, success_count, start_time,
              wall, final_report, run_result, raised_in>>
cfgVars == <<cfg_kind, cfg_token, cfg_strategy, cpc, cfg_conn, cfg_raising,
             http_sent, rows_written, stage_failed>>
expVars == <<today, cache, partial, epc, days_back, probes, cache_before,
             export_file, export_raised, export_runs>>
keyVars == <<kpc, key_rows, key_before, key_table, key_map>>
againVars == <<disc_runs, first_output>>
extVars == <<loadVars, gateVars, fanVars, orchVars, cfgVars, expVars,
             keyVars, againVars>>
otherThanLoad ==
    <<clientVars, discVars, gateVars, fanVars, orchVars, cfgVars, expVars,
      keyVars, againVars>>
otherThanGates ==
    <<clientVars, discVars, loadVars, fanVars, orchVars, cfgVars, expVars,
      keyVars, againVars>>
otherThanFan ==
    <<clientVars, discVars, loadVars, gateVars, orchVars, cfgVars, expVars,
      keyVars, againVars>>
otherThanOrch ==
    <<clientVars, discVars, loadVars, gateVars, fanVars, cfgVars, expVars,
      keyVars, againVars>>
otherThanCfg ==
    <<clientVars, discVars, loadVars, gateVars, fanVars, orchVars, expVars,
      keyVars, againVars>>
otherThanExp ==
    <<clientVars, discVars, loadVars, gateVars, fanVars, orchVars, cfgVars,
      keyVars, againVars>>
otherThanKey ==
    <<clientVars, discVars, loadVars, gateVars, fanVars, orchVars, cfgVars,
      expVars, againVars>>
otherThanAgain ==
    <<clientVars, loadVars, gateVars, fanVars, orchVars, cfgVars, expVars,
      keyVars>>
vars == <<clientVars, discVars, extVars>>

Callers == 1..NumCallers
Tasks == 1..NumTasks

\* ------------------------------------------------------------ RateGate
\* request_times = [t for t in request_times if now - t < 1.0]
FilterWindow(times, now) ==
    SelectSeq(times, LAMBDA t : now - t < TicksPerSecond)

\* len(self.request_times) >= self.REQUESTS_PER_SECOND
WindowFull(times) == Len(times) >= REQUESTS_PER_SECOND

\* sleep_time = 1.0 - (now - self.request_times[0])
SleepTime(times, now) == TicksPerSecond - (now - times[1])

\* A gate that lets every caller through at once and records nothing.
RateLimitEnterSkipped(times, now) == [sleep |-> 0, times |-> times]

\* The part of _rate_limit that runs before its only suspension point.
\* sleep > 0: the caller suspends in asyncio.sleep(sleep) with request_times
\* left as `times`; otherwise the call has returned.
RateLimitEnter(times, now) ==
    LET kept == FilterWindow(times, now) IN
    IF WindowFull(kept)
    THEN IF SleepTime(kept, now) > 0
         THEN [sleep |-> SleepTime(kept, now), times |-> kept]
         ELSE [sleep |-> 0, times |-> <<now>>]
    ELSE [sleep |-> 0, times |-> Append(kept, now)]

\* The part of _rate_limit after asyncio.sleep: request_times = [] and then
\* request_times.append(now), with the `now` read before the sleep.
RateLimitResume(now) == <<now>>

\* Grants that lie in the trailing 1-second window ending at time `at`.
InWindow(gs, at) == SelectSeq(gs, LAMBDA g : at - g < TicksPerSecond)

IdleCaller == [pc |-> "idle", now |-> 0, wake |-> 0]

\* A caller starts _rate_limit() and runs to its return or to its sleep.
RateLimitCall(c) ==
    /\ rl[c].pc = "idle"
    /\ LET r == RateLimitEnter(request_times, clock) IN
       /\ request_times' = r.times
       /\ IF r.sleep > 0
          THEN /\ rl' = [rl EXCEPT ![c] = [pc |-> "sleeping", now |-> clock,
                                            wake |-> clock + r.sleep]]
               /\ UNCHANGED grants
          ELSE /\ grants' = Append(grants, clock)
               /\ UNCHANGED rl
    /\ UNCHANGED <<clock, semaphore, task>>
    /\ UNCHANGED <<discVars, extVars>>

\* asyncio.sleep(sleep_time) is over: the caller clears the window, records
\* its old `now` and returns.
RateLimitWake(c) ==
    /\ rl[c].pc = "sleeping"
    /\ clock >= rl[c].wake
    /\ request_times' = RateLimitResume(rl[c].now)
    /\ grants' = Append(grants, clock)
    /\ rl' = [rl EXCEPT ![c] = IdleCaller]
    /\ UNCHANGED <<clock, semaphore, task>>
    /\ UNCHANGED <<discVars, extVars>>

\* Time passes.  Grants that left every future window are forgotten.
TickRate ==
    /\ clock < MaxTime
    /\ clock' = clock + 1
    /\ grants' = InWindow(grants, clock + 1)
    /\ UNCHANGED <<request_times, rl, semaphore, task>>
    /\ UNCHANGED <<discVars, extVars>>

InitTask == [pc |-> "acquire", depth |-> 0, now |-> 0, wake |-> 0,
             attempts |-> 0, transients |-> 0, status |-> 0,
             exit |-> "none", result |-> "none"]

\* --------------------------------------------------- ConnectionGate, _request
\* A semaphore that never makes a caller wait.
SemLockedNever(value) == FALSE

\* asyncio.Semaphore.locked(): no free slot.
SemLocked(value) == value = 0

\* The Retry-After header of a 429 response: absent, an integer literal, or
\* present and not an integer literal (an HTTP-date, "1.5", ...).
DefaultRetryAfter == 2
RetryAfterHeaders ==
    {[kind |-> "absent", value |-> 0], [kind |-> "nonint", value |-> 0]}
    \cup {[kind |-> "int", value |-> v] : v \in 0..MaxRetryAfter}

\* int(response.headers.get('Retry-After', 2)) raises ValueError on a
\* header that is not an integer literal.
RetryAfterRaises(h) == h.kind = "nonint"

\* The value of int(response.headers.get('Retry-After', 2)) otherwise.
RetryAfterSeconds(h) ==
    IF h.kind = "absent" THEN DefaultRetryAfter ELSE h.value

\* What one HTTP attempt can end with, other than status 429:
\*   ok        200 and a payload that parses
\*   badjson   200 and response.json() raises
\*   notfound  404
\*   other     any other status
\*   neterror  session.get raises (connection error, timeout)
Responses == {"ok", "badjson", "notfound", "other", "neterror"}

StatusOf(resp) ==
    CASE resp = "ok" -> 200
      [] resp = "badjson" -> 200
      [] resp = "notfound" -> 404
      [] resp = "other" -> 500
      [] resp = "neterror" -> 0

\* The branch of _request taken for a response: the exit path and the value
\* returned.  Every raise inside the try block ends in `except Exception`,
\* which returns None.
ExitOf(resp) ==
    CASE resp = "ok" -> "success"
      [] resp = "badjson" -> "parse_error"
      [] resp = "notfound" -> "notfound"
      [] resp = "other" -> "http_error"
      [] resp = "neterror" -> "transient"

\* A classification by the status alone: every 200 yields the payload.
ResultOfStatus(resp) == IF StatusOf(resp) = 200 THEN "payload" ELSE "None"

ResultOf(resp) == IF resp = "ok" THEN "payload" ELSE "None"

ExceptionExits == {"parse_error", "transient", "bad_retry_after"}

\* The innermost frame returns `result`; every enclosing frame of the same
\* logical call is at `return await self._request(...)` and returns it too.
Returned(tk, status, exit, result) ==
    [tk EXCEPT !.pc = "done", !.depth = 0, !.now = 0, !.wake = 0,
               !.status = status, !.exit = exit, !.result = result]

\* A handler that retries a failed attempt once before giving up.
OnRequestErrorRetry(tk) ==
    IF tk.transients < 1
    THEN [tk EXCEPT !.transients = @ + 1, !.pc = "backoff", !.wake = 0]
    ELSE Returned([tk EXCEPT !.transients = @ + 1], 0, "transient", "None")

\* The state of a call after an attempt whose session.get raised: the
\* handler prints and returns None.
OnRequestError(tk) ==
    Returned([tk EXCEPT !.transients = @ + 1], 0, "transient", "None")

\* The state of a call after a 429 response with Retry-After header h.
OnThrottled(tk, h, now) ==
    IF RetryAfterRaises(h)
    THEN Returned(tk, 429, "bad_retry_after", "None")
    ELSE [tk EXCEPT !.pc = "backoff", !.status = 429, !.now = 0,
                    !.wake = now + RetryAfterSeconds(h) * TicksPerSecond]

\* A release that is skipped when the block is left by an exception.
SlotsReleasedLeak(old, new) ==
    IF new.exit \in ExceptionExits THEN 0 ELSE old.depth - new.depth

\* Slots given back by the frames that left `async with self.semaphore`
\* between the states old and new of a call.
SlotsReleased(old, new) == old.depth - new.depth

\* `async with self.semaphore` is entered by a new frame of call t, which then
\* runs _rate_limit() up to its return (the GET is issued) or to its sleep.
ReqAcquire(t) ==
    /\ task[t].pc = "acquire"
    /\ ~SemLocked(semaphore)
    /\ semaphore' = semaphore - 1
    /\ LET r == RateLimitEnter(request_times, clock) IN
       /\ request_times' = r.times
       /\ task' = [task EXCEPT ![t] =
            IF r.sleep > 0
            THEN [@ EXCEPT !.pc = "rate_sleep", !.depth = @ + 1,
                           !.now = clock, !.wake = clock + r.sleep]
            ELSE [@ EXCEPT !.pc = "get", !.depth = @ + 1,
                           !.attempts = @ + 1]]
    /\ UNCHANGED <<clock, rl, grants>>
    /\ UNCHANGED <<discVars, extVars>>

\* The sleep inside _rate_limit() is over: the GET is issued.
ReqRateWake(t) ==
    /\ task[t].pc = "rate_sleep"
    /\ clock >= task[t].wake
    /\ request_times' = RateLimitResume(task[t].now)
    /\ task' = [task EXCEPT ![t] = [@ EXCEPT !.pc = "get", !.now = 0,
                                             !.wake = 0, !.attempts = @ + 1]]
    /\ UNCHANGED <<clock, rl, grants, semaphore>>
    /\ UNCHANGED <<discVars, extVars>>

\* The attempt ends with something other than 429.
ReqRespond(t, resp) ==
    /\ task[t].pc = "get"
    /\ LET new == IF resp = "neterror"
                  THEN OnRequestError(task[t])
                  ELSE Returned(task[t], StatusOf(resp), ExitOf(resp),
                                ResultOf(resp)) IN
       /\ task' = [task EXCEPT ![t] = new]
       /\ semaphore' = semaphore + SlotsReleased(task[t], new)
    /\ UNCHANGED <<clock, request_times, rl, grants>>
    /\ UNCHANGED <<discVars, extVars>>

\* The attempt ends with 429.
ReqThrottled(t, h) ==
    /\ task[t].pc = "get"
    /\ LET new == OnThrottled(task[t], h, clock) IN
       /\ task' = [task EXCEPT ![t] = new]
       /\ semaphore' = semaphore + SlotsReleased(task[t], new)
    /\ UNCHANGED <<clock, request_times, rl, grants>>
    /\ UNCHANGED <<discVars, extVars>>

\* asyncio.sleep(retry_after) is over: the frame calls self._request(...)
\* again, inside its own `async with self.semaphore` block.
ReqBackoffWake(t) ==
    /\ task[t].pc = "backoff"
    /\ clock >= task[t].wake
    /\ task' = [task EXCEPT ![t] = [@ EXCEPT !.pc = "acquire", !.wake = 0]]
    /\ UNCHANGED <<clock, request_times, rl, grants, semaphore>>
    /\ UNCHANGED <<discVars, extVars>>

TickReq ==
    /\ clock < MaxTime
    /\ clock' = clock + 1
    /\ UNCHANGED <<request_times, rl, grants, semaphore, task>>
    /\ UNCHANGED <<discVars, extVars>>

\* ------------------------------------------------------------ upstream
Pages == 1..MAX_PAGES
NumYears == year_to - year_from + 1

\* _get_year_segments: list(range(year_to, year_from - 1, -1)).
YearSegments == [i \in 1..NumYears |-> year_to - (i - 1)]

Min(a, b) == IF a <= b THEN a ELSE b
\* (a + b - 1) // b
CeilDiv(a, b) == (a + b - 1) \div b

\* The listings explored: n consecutive IDs from `start`; with `again`, the
\* last item of page 1 shows up once more as the first item of page 2 (the
\* ranking moved between the two requests).  Listings of different years
\* overlap when their ID ranges do.
ListingOf(start, n, again) ==
    [i \in 1..n |-> IF again /\ i = ITEMS_PER_PAGE + 1
                    THEN start + i - 2 ELSE start + i - 1]
ListingsFrom(starts) ==
    {ListingOf(st, n, again) :
        st \in starts, n \in 0..MaxListing, again \in BOOLEAN}
\* IDs are opaque: the unpartitioned listing and the newest year's listing
\* start at ID 1, older years' listings start anywhere in 1..MaxStart.
Listings == ListingsFrom({1})
YearListings(y) ==
    IF y = year_to THEN ListingsFrom({1}) ELSE ListingsFrom(1..MaxStart)

\* The payload of page p of a listing: ITEMS_PER_PAGE items per page, and the
\* total_pages the endpoint reports.
PagePayload(lst, p) ==
    [results |-> SubSeq(lst, (p - 1) * ITEMS_PER_PAGE + 1,
                        Min(p * ITEMS_PER_PAGE, Len(lst))),
     total_pages |-> CeilDiv(Len(lst), ITEMS_PER_PAGE)]

\* A line of the export file: an item (a JSON object), a line that is not
\* JSON ("bad"), or a line of JSON that is not an object ("notdict": null,
\* a number, a list).
SnapshotLines ==
    {[kind |-> "bad", popularity |-> 0, flag |-> "none"],
     [kind |-> "notdict", popularity |-> 0, flag |-> "none"]}
    \cup [kind : {"item"}, popularity : 0..MaxPopularity,
          flag : {"none", "adult", "video"}]
\* The item of line i carries id i.
Snapshots == UNION {[1..n -> SnapshotLines] : n \in 0..MaxSnapshot}

TargetCounts ==
    (0..(ITEMS_PER_PAGE * MAX_PAGES + 2))
    \cup {ITEMS_PER_PAGE * MAX_PAGES * NumYears + 1}

\* ------------------------------------------------------- page fetch tasks
NoPages == [p \in Pages |-> "idle"]
NoRequests == [i \in 1..NumYears |-> [p \in Pages |-> 0]]

\* Tasks for the pages of `ps` are created (and counted under partition i).
Issue(pgs, ps) == [p \in Pages |-> IF p \in ps THEN "pending" ELSE pgs[p]]
Count(req, i, ps) ==
    [req EXCEPT ![i] = [p \in Pages |-> IF p \in ps THEN @[p] + 1 ELSE @[p]]]

\* gather has returned: no task of the current gather is unfinished.
GatherDone == \A p \in Pages : pages[p] \in {"idle", "ok", "none"}

\* The payloads of the finished tasks of pages lo..hi, in page order, None
\* for the failed ones.
RECURSIVE GatherResults(_, _, _)
GatherResults(lst, lo, hi) ==
    IF lo > hi THEN <<>>
    ELSE <<IF pages[lo] = "ok"
           THEN [ok |-> TRUE, payload |-> PagePayload(lst, lo)]
           ELSE [ok |-> FALSE, payload |-> PagePayload(<<>>, lo)]>>
         \o GatherResults(lst, lo + 1, hi)

\* The listing a page task of the current run reads.
CurrentListing ==
    IF strategy = "segmented" THEN listing[YearSegments[year_pos]]
    ELSE catalog

\* A page request is answered 200 with a payload.
PageOk(p) ==
    /\ pages[p] = "pending"
    /\ pages' = [pages EXCEPT ![p] = "ok"]
    /\ UNCHANGED <<fetch_failed, strategy, target_count, catalog, listing,
                   snapshot, dpc,
                   year_pos, next_page, requested, movie_ids, seen_ids,
                   output>>
    /\ UNCHANGED <<clientVars, extVars>>

\* A page request ends with None: another status, or an exception.
PageFail(p) ==
    /\ pages[p] = "pending"
    /\ pages' = [pages EXCEPT ![p] = "none"]
    /\ fetch_failed' = TRUE
    /\ UNCHANGED <<strategy, target_count, catalog, listing, snapshot, dpc,
                   year_pos, next_page, requested, movie_ids, seen_ids,
                   output>>
    /\ UNCHANGED <<clientVars, extVars>>

\* A page request is answered 429: the task sleeps retry_after seconds.
PageThrottled(p) ==
    /\ pages[p] = "pending"
    /\ pages' = [pages EXCEPT ![p] = "backoff"]
    /\ UNCHANGED <<fetch_failed, strategy, target_count, catalog, listing,
                   snapshot, dpc,
                   year_pos, next_page, requested, movie_ids, seen_ids,
                   output>>
    /\ UNCHANGED <<clientVars, extVars>>

\* The sleep is over: the task requests the same page again.
PageRetry(p) ==
    /\ pages[p] = "backoff"
    /\ pages' = [pages EXCEPT ![p] = "pending"]
    /\ UNCHANGED <<fetch_failed, strategy, target_count, catalog, listing,
                   snapshot, dpc,
                   year_pos, next_page, requested, movie_ids, seen_ids,
                   output>>
    /\ UNCHANGED <<clientVars, extVars>>

\* ------------------------------------------------------- DiscoverStrategy
\* A slice that cuts nothing.
TruncateNone(seq, n) == seq

\* seq[:n] for n >= 0.
Truncate(seq, n) == SubSeq(seq, 1, Min(n, Len(seq)))

\* DiscoverStrategy.__init__: min(target_count, MAX_PAGES * ITEMS_PER_PAGE).
DirectTarget(target) == Min(target, MAX_PAGES * ITEMS_PER_PAGE)

\* A page count rounded down.
PagesNeededFloor(target) == Min(target \div ITEMS_PER_PAGE, MAX_PAGES)

\* pages_needed of DiscoverStrategy.get_movie_ids and of get_series_ids.
PagesNeeded(target) == Min(CeilDiv(target, ITEMS_PER_PAGE), MAX_PAGES)

\* for movie in result["results"]: append; stop at target.
RECURSIVE AppendUntil(_, _, _)
AppendUntil(acc, items, target) ==
    IF items = <<>> THEN acc
    ELSE LET more == Append(acc, Head(items)) IN
         IF Len(more) >= target THEN more
         ELSE AppendUntil(more, Tail(items), target)

\* for result in results: skip None, collect, stop at target.
RECURSIVE CollectPages(_, _, _)
CollectPages(acc, results, target) ==
    IF results = <<>> THEN acc
    ELSE LET r == Head(results)
             more == IF r.ok THEN AppendUntil(acc, r.payload.results, target)
                     ELSE acc IN
         IF Len(more) >= target THEN more
         ELSE CollectPages(more, Tail(results), target)

\* The part of DiscoverStrategy.get_movie_ids after gather.
DirectResult(results, target) ==
    Truncate(CollectPages(<<>>, results, target), target)

\* get_movie_ids creates one task per page 1..pages_needed.
DirectStart ==
    /\ strategy = "direct"
    /\ dpc = "start"
    /\ LET ps == 1..PagesNeeded(DirectTarget(target_count)) IN
       /\ pages' = Issue(pages, ps)
       /\ requested' = Count(requested, 1, ps)
    /\ dpc' = "gather"
    /\ UNCHANGED <<fetch_failed, strategy, target_count, catalog, listing,
                   snapshot,
                   year_pos, next_page, movie_ids, seen_ids, output>>
    /\ UNCHANGED <<clientVars, extVars>>

\* gather returns the results in page order; the IDs are collected.
DirectCollect ==
    /\ strategy = "direct"
    /\ dpc = "gather"
    /\ GatherDone
    /\ LET results == GatherResults(catalog, 1,
                          PagesNeeded(DirectTarget(target_count))) IN
       /\ movie_ids' = CollectPages(<<>>, results, DirectTarget(target_count))
       /\ output' = DirectResult(results, DirectTarget(target_count))
    /\ dpc' = "done"
    /\ UNCHANGED <<fetch_failed, strategy, target_count, catalog, listing,
                   snapshot,
                   year_pos, next_page, pages, requested, seen_ids>>
    /\ UNCHANGED <<clientVars, extVars>>

\* --------------------------------------------- DiscoverSegmentedStrategy
\* movies_per_year = (target_count + len(years) - 1) // len(years)
MoviesPerYear(target) == CeilDiv(target, NumYears)

\* The max_per_year passed to _fetch_year:
\* min(movies_per_year, target_count - len(movie_ids)).
MaxPerYear(target, collected) == Min(MoviesPerYear(target), target - collected)

\* pages_needed of _fetch_year, from the first page's total_pages.
YearPagesNeeded(first_page, max_per_year) ==
    Min(CeilDiv(max_per_year, ITEMS_PER_PAGE),
        Min(first_page.total_pages, MAX_PAGES))

\* A dedup test that lets every ID through.
UnseenAlways(id, seen) == TRUE

\* movie_id not in self.seen_ids
Unseen(id, seen) == id \notin seen

\* for movie in page_data["results"]: take the unseen IDs, stop at the max.
RECURSIVE DedupUntil(_, _, _)
DedupUntil(acc, items, max_per_year) ==
    IF items = <<>> THEN acc
    ELSE LET id == Head(items)
             more == IF Unseen(id, acc.seen)
                     THEN [ids |-> Append(acc.ids, id),
                           seen |-> acc.seen \cup {id}]
                     ELSE acc IN
         IF Len(more.ids) >= max_per_year THEN more
         ELSE DedupUntil(more, Tail(items), max_per_year)

\* for page_data in all_pages: collect, stop at the max.
RECURSIVE CollectYear(_, _, _)
CollectYear(acc, all_pages, max_per_year) ==
    IF all_pages = <<>> THEN acc
    ELSE LET more == DedupUntil(acc, Head(all_pages).results, max_per_year) IN
         IF Len(more.ids) >= max_per_year THEN more
         ELSE CollectYear(more, Tail(all_pages), max_per_year)

\* all_pages = [first_page] + [p for p in other_pages if p]
RECURSIVE OkPayloads(_)
OkPayloads(results) ==
    IF results = <<>> THEN <<>>
    ELSE (IF Head(results).ok THEN <<Head(results).payload>> ELSE <<>>)
         \o OkPayloads(Tail(results))
AllPages == OkPayloads(GatherResults(CurrentListing, 1, MAX_PAGES))

\* The end of _fetch_year and of the loop body of get_movie_ids: the year's
\* IDs are collected and appended, and the loop moves to the next year.
SegCollectYear ==
    LET r == CollectYear([ids |-> <<>>, seen |-> seen_ids], AllPages,
                         MaxPerYear(target_count, Len(movie_ids))) IN
    /\ movie_ids' = movie_ids \o r.ids
    /\ seen_ids' = r.seen
    /\ year_pos' = year_pos + 1
    /\ pages' = NoPages
    /\ dpc' = "loop"
    /\ UNCHANGED requested

\* A loop that never stops before the years are used up.
TargetMetNever(ids, target) == FALSE

\* if len(movie_ids) >= self.target_count: break
TargetMet(ids, target) == Len(ids) >= target

\* The head of the loop over years: stop when the target is met or the years
\* are used up, else start _fetch_year with the request for page 1.
SegLoop ==
    /\ strategy = "segmented"
    /\ dpc \in {"start", "loop"}
    /\ IF year_pos > NumYears \/ TargetMet(movie_ids, target_count)
       THEN /\ output' = Truncate(movie_ids, target_count)
            /\ dpc' = "done"
            /\ UNCHANGED <<pages, requested>>
       ELSE /\ pages' = Issue(NoPages, {1})
            /\ requested' = Count(requested, year_pos, {1})
            /\ dpc' = "first"
            /\ UNCHANGED output
    /\ UNCHANGED <<fetch_failed, strategy, target_count, catalog, listing,
                   snapshot,
                   year_pos, next_page, movie_ids, seen_ids>>
    /\ UNCHANGED <<clientVars, extVars>>

\* The first page of the year is back: give up the year, or request the
\* other pages, or collect at once when one page is enough.
SegFirstDone ==
    /\ strategy = "segmented"
    /\ dpc = "first"
    /\ pages[1] \in {"ok", "none"}
    /\ IF pages[1] = "none"
       THEN /\ year_pos' = year_pos + 1
            /\ pages' = NoPages
            /\ dpc' = "loop"
            /\ UNCHANGED <<requested, movie_ids, seen_ids>>
       ELSE LET n == YearPagesNeeded(PagePayload(CurrentListing, 1),
                         MaxPerYear(target_count, Len(movie_ids))) IN
            IF n > 1
            THEN /\ pages' = Issue(pages, 2..n)
                 /\ requested' = Count(requested, year_pos, 2..n)
                 /\ dpc' = "rest"
                 /\ UNCHANGED <<year_pos, movie_ids, seen_ids>>
            ELSE SegCollectYear
    /\ UNCHANGED <<fetch_failed, strategy, target_count, catalog, listing,
                   snapshot,
                   next_page, output>>
    /\ UNCHANGED <<clientVars, extVars>>

\* get_movie_ids() is called a second time on the same strategy object,
\* against the same upstream content: movie_ids is a local of the call, seen_ids is an
\* attribute set in __init__ and keeps what the earlier call put into it.
SegAgain ==
    /\ strategy = "segmented"
    /\ dpc = "done"
    /\ disc_runs = 1
    /\ disc_runs' = 2
    /\ first_output' = <<output>>
    /\ movie_ids' = <<>>
    /\ year_pos' = 1
    /\ pages' = NoPages
    /\ requested' = NoRequests
    /\ dpc' = "start"
    /\ UNCHANGED <<fetch_failed, strategy, target_count, catalog, listing,
                   snapshot, next_page, seen_ids, output>>
    /\ UNCHANGED otherThanAgain

\* asyncio.gather of the other pages has returned.
SegGatherDone ==
    /\ strategy = "segmented"
    /\ dpc = "rest"
    /\ GatherDone
    /\ SegCollectYear
    /\ UNCHANGED <<fetch_failed, strategy, target_count, catalog, listing,
                   snapshot,
                   next_page, output>>
    /\ UNCHANGED <<clientVars, extVars>>

\* ------------------------------------------------ SeriesDiscoverStrategy
\* series_ids.extend(...) for every page of the batch that is not None.
RECURSIVE ExtendAll(_, _)
ExtendAll(acc, results) ==
    IF results = <<>> THEN acc
    ELSE ExtendAll(IF Head(results).ok
                   THEN acc \o Head(results).payload.results ELSE acc,
                   Tail(results))

\* The last page of the batch that starts at page `from`.
BatchEnd(from, pages_needed) == Min(from + SERIES_BATCH - 1, pages_needed)

\* The loop over pages reaches the end of a batch and gathers it; with no
\* page to fetch the list is returned at once.
SeriesIssue ==
    /\ strategy = "series"
    /\ dpc \in {"start", "loop"}
    /\ IF next_page > PagesNeeded(target_count)
       THEN /\ output' = Truncate(movie_ids, target_count)
            /\ dpc' = "done"
            /\ UNCHANGED <<pages, requested>>
       ELSE LET ps == next_page..BatchEnd(next_page,
                                          PagesNeeded(target_count)) IN
            /\ pages' = Issue(NoPages, ps)
            /\ requested' = Count(requested, 1, ps)
            /\ dpc' = "batch"
            /\ UNCHANGED output
    /\ UNCHANGED <<fetch_failed, strategy, target_count, catalog, listing,
                   snapshot,
                   year_pos, next_page, movie_ids, seen_ids>>
    /\ UNCHANGED <<clientVars, extVars>>

\* The batch is back: extend the list, break when the target is met.
SeriesCollect ==
    /\ strategy = "series"
    /\ dpc = "batch"
    /\ GatherDone
    /\ LET last == BatchEnd(next_page, PagesNeeded(target_count))
           more == ExtendAll(movie_ids,
                             GatherResults(catalog, next_page, last)) IN
       /\ movie_ids' = more
       /\ pages' = NoPages
       /\ next_page' = last + 1
       /\ IF Len(more) >= target_count
          THEN /\ output' = Truncate(more, target_count)
               /\ dpc' = "done"
          ELSE /\ dpc' = "loop"
               /\ UNCHANGED output
    /\ UNCHANGED <<fetch_failed, strategy, target_count, catalog, listing,
                   snapshot,
                   year_pos, requested, seen_ids>>
    /\ UNCHANGED <<clientVars, extVars>>

\* ---------------------------------------------------------- ExportStrategy
exclude_adult == TRUE
exclude_video == TRUE

\* json.loads raises JSONDecodeError on a line that is not JSON, which is
\* caught; item.get on a value that is not an object raises AttributeError,
\* which no handler of _parse_export or get_movie_ids catches.
ParseRaises(lines) == \E i \in DOMAIN lines : lines[i].kind = "notdict"

\* _parse_export: the items that are JSON and pass the filters, in file
\* order; the item of line i has id i.
RECURSIVE ParseExport(_, _)
ParseExport(lines, i) ==
    IF i > Len(lines) THEN <<>>
    ELSE LET l == lines[i]
             skip == \/ l.kind # "item"
                     \/ exclude_adult /\ l.flag = "adult"
                     \/ exclude_video /\ l.flag = "video"
                     \/ l.popularity < min_popularity IN
         (IF skip THEN <<>> ELSE <<[id |-> i, popularity |-> l.popularity]>>)
         \o ParseExport(lines, i + 1)

\* items.sort(key=popularity, reverse=True): a stable sort, equal items keep
\* their order.
RECURSIVE InsertDesc(_, _)
InsertDesc(sorted, x) ==
    IF sorted = <<>> THEN <<x>>
    ELSE IF Head(sorted).popularity >= x.popularity
         THEN <<Head(sorted)>> \o InsertDesc(Tail(sorted), x)
         ELSE <<x>> \o sorted
RECURSIVE SortDesc(_)
SortDesc(items) ==
    IF items = <<>> THEN <<>>
    ELSE InsertDesc(SortDesc(SubSeq(items, 1, Len(items) - 1)),
                    items[Len(items)])

\* get_movie_ids after the download: parse, sort, top N, IDs.
ExportResult(lines, target) ==
    LET top == Truncate(SortDesc(ParseExport(lines, 1)), target) IN
    [i \in 1..Len(top) |-> top[i].id]

\* get_movie_ids: no export file could be had (RuntimeError), or one is
\* parsed and its top N returned, unless the parse raises.
ExportRun(found) ==
    /\ strategy = "export"
    /\ dpc = "start"
    /\ IF ~found
       THEN /\ dpc' = "failed"
            /\ UNCHANGED output
       ELSE IF ParseRaises(snapshot)
       THEN /\ dpc' = "raised"
            /\ UNCHANGED output
       ELSE /\ output' = ExportResult(snapshot, target_count)
            /\ dpc' = "done"
    /\ UNCHANGED <<fetch_failed, strategy, target_count, catalog, listing,
                   snapshot,
                   year_pos, next_page, pages, requested, movie_ids,
                   seen_ids>>
    /\ UNCHANGED <<clientVars, extVars>>

\* ------------------------------------------------------ BaseLoader, loaders
\* The row sets explored.  One series, 5, and one locale.  Season rows and
\* episode translation rows are for season 99, season translation rows and
\* episode rows (episode 1) for seasons 1 and 99.  `value` stands for the
\* columns the upsert overwrites, in one of two versions of the upstream data.
SeasonNumbers == {99}
EpisodeSeasons == {1, 99}
Versions == {1, 2}

\* The elements of a set of numbers, ascending, as a list.
RECURSIVE SeqOf(_)
SeqOf(S) ==
    IF S = {} THEN <<>>
    ELSE LET m == CHOOSE x \in S : \A y \in S : x <= y IN
         <<m>> \o SeqOf(S \ {m})

\* The dictionary transform() returns, reduced to the tables of the
\* hierarchy: content, series_details, seasons, season_translations,
\* episodes, episode_translations (translations, genres and countries are
\* loaded like series_details, one after the other and before the seasons).
RowSet(v, S, ST, E, ET) ==
    [content |-> <<[id |-> 5, value |-> v]>>,
     series_details |-> <<[content_id |-> 5, value |-> v]>>,
     seasons |->
        [i \in 1..Cardinality(S) |->
            [content_id |-> 5, season_number |-> SeqOf(S)[i], value |-> v]],
     season_translations |->
        [i \in 1..Cardinality(ST) |->
            [content_id |-> 5, season_number |-> SeqOf(ST)[i],
             locale |-> "en", value |-> v]],
     episodes |->
        [i \in 1..Cardinality(E) |->
            [content_id |-> 5, season_number |-> SeqOf(E)[i],
             episode_number |-> 1, value |-> v]],
     episode_translations |->
        [i \in 1..Cardinality(ET) |->
            [content_id |-> 5, season_number |-> SeqOf(ET)[i],
             episode_number |-> 1, locale |-> "en", value |-> v]]]
RowSets ==
    {RowSet(v, S, ST, E, ET) :
        v \in Versions, S \in SUBSET SeasonNumbers,
        ST \in SUBSET EpisodeSeasons, E \in SUBSET EpisodeSeasons,
        ET \in SUBSET SeasonNumbers}
\* The longest list of a row set.
MaxRows == Cardinality(EpisodeSeasons)
NoRows ==
    [content |-> <<>>, series_details |-> <<>>, seasons |-> <<>>, season_translations |-> <<>>,
     episodes |-> <<>>, episode_translations |-> <<>>]

ChildTables == {"season_translations", "episodes", "episode_translations"}
EmptyStore ==
    [content |-> {}, series_details |-> {}, seasons |-> {}, season_translations |-> {},
     episodes |-> {}, episode_translations |-> {}]

\* The next value of a serial id column.
FreshId(table) ==
    IF table = {} THEN 1
    ELSE 1 + (CHOOSE m \in {r.id : r \in table} :
                 \A r \in table : r.id <= m)

\* INSERT INTO content ... ON CONFLICT (id) DO UPDATE SET ..., updated_at =
\* NOW().  A new row gets the column default for updated_at, written 0.
UpsertContent(table, row, now) ==
    IF \E r \in table : r.id = row.id
    THEN {IF r.id = row.id
          THEN [r EXCEPT !.value = row.value, !.updated_at = now]
          ELSE r : r \in table}
    ELSE table \cup {[id |-> row.id, value |-> row.value, updated_at |-> 0]}

\* INSERT INTO series_details ... ON CONFLICT (content_id) DO UPDATE SET ...,
\* updated_at = NOW().
UpsertDetails(table, row, now) ==
    IF \E r \in table : r.content_id = row.content_id
    THEN {IF r.content_id = row.content_id
          THEN [r EXCEPT !.value = row.value, !.updated_at = now]
          ELSE r : r \in table}
    ELSE table \cup {[content_id |-> row.content_id, value |-> row.value,
                      updated_at |-> 0]}

\* The conflict test of the seasons upsert.
SameSeasonNever(r, row) == FALSE
SameSeason(r, row) ==
    r.content_id = row.content_id /\ r.season_number = row.season_number

\* INSERT INTO seasons ... ON CONFLICT (content_id, season_number) DO UPDATE
\* ... RETURNING id, content_id, season_number: the table after the
\* statement and the id returned.
UpsertSeason(table, row, now) ==
    IF \E r \in table : SameSeason(r, row)
    THEN [table |-> {IF SameSeason(r, row)
                     THEN [r EXCEPT !.value = row.value, !.updated_at = now]
                     ELSE r : r \in table},
          id |-> (CHOOSE r \in table : SameSeason(r, row)).id]
    ELSE [table |-> table \cup
                    {[id |-> FreshId(table), content_id |-> row.content_id,
                      season_number |-> row.season_number,
                      value |-> row.value, updated_at |-> 0]},
          id |-> FreshId(table)]

\* INSERT INTO episodes ... ON CONFLICT (season_id, episode_number) DO UPDATE
\* ... RETURNING id, season_id, episode_number; row is (season_id,
\* episode_number, ...).
SameEpisode(r, row) ==
    r.season_id = row.season_id /\ r.episode_number = row.episode_number
UpsertEpisode(table, row, now) ==
    IF \E r \in table : SameEpisode(r, row)
    THEN [table |-> {IF SameEpisode(r, row)
                     THEN [r EXCEPT !.value = row.value, !.updated_at = now]
                     ELSE r : r \in table},
          id |-> (CHOOSE r \in table : SameEpisode(r, row)).id]
    ELSE [table |-> table \cup
                    {[id |-> FreshId(table), season_id |-> row.season_id,
                      episode_number |-> row.episode_number,
                      value |-> row.value, updated_at |-> 0]},
          id |-> FreshId(table)]

\* INSERT INTO season_translations / episode_translations ... ON CONFLICT
\* (parent id, locale) DO UPDATE; row is (parent_id, locale, ...).
UpsertTranslation(table, row, now) ==
    IF \E r \in table : r.parent_id = row.parent_id /\ r.locale = row.locale
    THEN {IF r.parent_id = row.parent_id /\ r.locale = row.locale
          THEN [r EXCEPT !.value = row.value, !.updated_at = now]
          ELSE r : r \in table}
    ELSE table \cup {[parent_id |-> row.parent_id, locale |-> row.locale,
                      value |-> row.value, updated_at |-> 0]}

\* ----------------------------------------- SeriesLoader._load_all_tables
EmptyMap == [k \in {} |-> 0]

\* dict.get(key) followed by `if season_id:` / `if episode_id:`.
HasKey(map, key) == key \in DOMAIN map

\* A key of the content alone.
SeasonKeyContentOnly(row) == <<row.content_id, 0>>

\* The key of season_id_map: (content_id, season_number).
SeasonKey(row) == <<row.content_id, row.season_number>>

\* Step 1 (and 2-5): execute_batch of the content upsert over the rows.
RECURSIVE LoadContentRows(_, _, _)
LoadContentRows(table, rows, now) ==
    IF rows = <<>> THEN table
    ELSE LoadContentRows(UpsertContent(table, Head(rows), now),
                         Tail(rows), now)

\* Step 2: _batch_insert of the series_details upsert over the rows.
RECURSIVE LoadDetailRows(_, _, _)
LoadDetailRows(table, rows, now) ==
    IF rows = <<>> THEN table
    ELSE LoadDetailRows(UpsertDetails(table, Head(rows), now),
                        Tail(rows), now)

\* Step 6: each season row is executed by itself and the returned id is
\* stored in season_id_map.
RECURSIVE LoadSeasonRows(_, _, _, _)
LoadSeasonRows(table, map, rows, now) ==
    IF rows = <<>> THEN [table |-> table, map |-> map]
    ELSE LET u == UpsertSeason(table, Head(rows), now) IN
         LoadSeasonRows(u.table, (SeasonKey(Head(rows)) :> u.id) @@ map,
                        Tail(rows), now)

\* A list that keeps every row, with parent id 0 where the lookup finds none.
RECURSIVE SeasonTransWithNulls(_, _)
SeasonTransWithNulls(rows, map) ==
    IF rows = <<>> THEN <<>>
    ELSE <<[parent_id |-> IF HasKey(map, SeasonKey(Head(rows)))
                          THEN map[SeasonKey(Head(rows))] ELSE 0,
            locale |-> Head(rows).locale, value |-> Head(rows).value]>>
         \o SeasonTransWithNulls(Tail(rows), map)

\* Step 7: season_trans_with_ids, the rows whose season is in the map.
RECURSIVE SeasonTransWithIds(_, _)
SeasonTransWithIds(rows, map) ==
    IF rows = <<>> THEN <<>>
    ELSE (IF HasKey(map, SeasonKey(Head(rows)))
          THEN <<[parent_id |-> map[SeasonKey(Head(rows))],
                  locale |-> Head(rows).locale, value |-> Head(rows).value]>>
          ELSE <<>>)
         \o SeasonTransWithIds(Tail(rows), map)

\* _batch_insert of translation rows.
RECURSIVE LoadTranslationRows(_, _, _)
LoadTranslationRows(table, rows, now) ==
    IF rows = <<>> THEN table
    ELSE LoadTranslationRows(UpsertTranslation(table, Head(rows), now),
                             Tail(rows), now)

\* Step 8: SELECT id, content_id, season_number FROM seasons, as a dict.
SelectSeasons(table) ==
    [k \in {<<r.content_id, r.season_number>> : r \in table} |->
        (CHOOSE r \in table : <<r.content_id, r.season_number>> = k).id]

\* Step 8: episodes_with_season_ids.
RECURSIVE EpisodesWithSeasonIds(_, _)
EpisodesWithSeasonIds(rows, map) ==
    IF rows = <<>> THEN <<>>
    ELSE (IF HasKey(map, SeasonKey(Head(rows)))
          THEN <<[season_id |-> map[SeasonKey(Head(rows))],
                  episode_number |-> Head(rows).episode_number,
                  value |-> Head(rows).value]>>
          ELSE <<>>)
         \o EpisodesWithSeasonIds(Tail(rows), map)

\* Step 8: each episode row is executed by itself and the returned id is
\* stored in episode_id_map.
RECURSIVE LoadEpisodeRows(_, _, _, _)
LoadEpisodeRows(table, map, rows, now) ==
    IF rows = <<>> THEN [table |-> table, map |-> map]
    ELSE LET u == UpsertEpisode(table, Head(rows), now)
             k == <<Head(rows).season_id, Head(rows).episode_number>> IN
         LoadEpisodeRows(u.table, (k :> u.id) @@ map, Tail(rows), now)

\* Step 9: the episode of a translation row was stored in this pass.
HasEpisode(row, smap, emap) ==
    /\ HasKey(smap, SeasonKey(row))
    /\ HasKey(emap, <<smap[SeasonKey(row)], row.episode_number>>)

\* Step 9: episode_trans_with_ids.
RECURSIVE EpisodeTransWithIds(_, _, _)
EpisodeTransWithIds(rows, smap, emap) ==
    IF rows = <<>> THEN <<>>
    ELSE (IF HasEpisode(Head(rows), smap, emap)
          THEN <<[parent_id |->
                      emap[<<smap[SeasonKey(Head(rows))],
                             Head(rows).episode_number>>],
                  locale |-> Head(rows).locale, value |-> Head(rows).value]>>
          ELSE <<>>)
         \o EpisodeTransWithIds(Tail(rows), smap, emap)

\* print("Loading <table> (N records)") and print("Loaded M <table>").
Announced(table, rows) ==
    [table |-> table, kind |-> "records", count |-> Len(rows)]
LoadedAll(table, rows, kept) ==
    [table |-> table, kind |-> "loaded", count |-> Len(rows)]
Loaded(table, rows, kept) ==
    [table |-> table, kind |-> "loaded", count |-> Len(kept)]

\* The rows of a list whose season, or whose episode, the lookup does not
\* find, counted.
MissingSeason(rows, map) ==
    Cardinality({i \in 1..Len(rows) : ~HasKey(map, SeasonKey(rows[i]))})
MissingEpisode(rows, smap, emap) ==
    Cardinality({i \in 1..Len(rows) : ~HasEpisode(rows[i], smap, emap)})

\* No row has been dropped yet.
NoDropped == [t \in ChildTables |-> 0]

\* ------------------------------------------------- SeriesLoader.run
\* NOW() of the invocation's transaction.
Now == runs

\* The exception of a step leaves the `with self` block.
Raise ==
    /\ raised' = TRUE
    /\ lpc' = "exit"

\* `with self`: __enter__ opens a connection and its transaction.
LoadRunStart ==
    /\ lpc \in {"idle", "done"}
    /\ runs < MaxRuns
    /\ runs' = runs + 1
    /\ db' = store
    /\ store_before' = store
    /\ data' = NoRows
    /\ raised' = FALSE
    /\ season_id_map' = EmptyMap
    /\ episode_id_map' = EmptyMap
    /\ report' = {}
    /\ dropped' = NoDropped
    /\ commits' = 0
    /\ rollbacks' = 0
    /\ lpc' = "extract"
    /\ UNCHANGED <<store, upstream>>
    /\ UNCHANGED otherThanLoad

\* extract(): raises, or returns nothing (run returns from inside the
\* block), or returns raw data.
Extract(outcome) ==
    /\ lpc = "extract"
    /\ CASE outcome = "raise" -> Raise
         [] outcome = "empty" -> lpc' = "exit" /\ UNCHANGED raised
         [] outcome = "data" -> lpc' = "transform" /\ UNCHANGED raised
    /\ UNCHANGED <<store, db, data, season_id_map, episode_id_map, report,
                   dropped, commits, rollbacks, runs, store_before, upstream>>
    /\ UNCHANGED otherThanLoad

\* transform(raw_data): raises, or returns the row set d.
Transform(d, ok) ==
    /\ lpc = "transform"
    /\ upstream \in {NoRows, d}
    /\ IF ok
       THEN /\ data' = d
            /\ lpc' = "content"
            /\ UNCHANGED raised
       ELSE /\ Raise
            /\ UNCHANGED data
    /\ UNCHANGED <<store, db, season_id_map, episode_id_map, report, dropped,
                   commits, rollbacks, runs, store_before, upstream>>
    /\ UNCHANGED otherThanLoad

\* An order that loads the episodes and their translations before the
\* seasons.
StepAfterEpisodesFirst(step) ==
    CASE step = "content" -> "series_details"
      [] step = "series_details" -> "episodes"
      [] step = "episodes" -> "episode_translations"
      [] step = "episode_translations" -> "seasons"
      [] step = "seasons" -> "season_translations"
      [] step = "season_translations" -> "exit"

\* The order of the blocks of _load_all_tables: 1 content, 2 series_details
\* (3-5 are loaded like it), 6 seasons, 7 season_translations, 8 episodes,
\* 9 episode_translations, then the end of the `with self` block.
StepAfter(step) ==
    CASE step = "content" -> "series_details"
      [] step = "series_details" -> "seasons"
      [] step = "seasons" -> "season_translations"
      [] step = "season_translations" -> "episodes"
      [] step = "episodes" -> "episode_translations"
      [] step = "episode_translations" -> "exit"

\* Step 1 of _load_all_tables; the statement of row k + 1 fails when k is
\* less than the number of rows.
LoadContent(k) ==
    /\ lpc = "content"
    /\ k \in 0..Len(data.content)
    /\ db' = [db EXCEPT !.content =
                 LoadContentRows(@, SubSeq(data.content, 1, k), Now)]
    /\ IF k < Len(data.content)
       THEN /\ Raise
            /\ report' = report \cup {Announced("content", data.content)}
       ELSE /\ lpc' = StepAfter("content")
            /\ report' = report \cup
                   {Announced("content", data.content),
                    Loaded("content", data.content, data.content)}
            /\ UNCHANGED raised
    /\ UNCHANGED <<store, data, season_id_map, episode_id_map, dropped,
                   commits, rollbacks, runs, store_before, upstream>>
    /\ UNCHANGED otherThanLoad

\* Step 2: skipped for an empty list.
LoadSeriesDetails(k) ==
    /\ lpc = "series_details"
    /\ k \in 0..Len(data.series_details)
    /\ db' = [db EXCEPT !.series_details =
                 LoadDetailRows(@, SubSeq(data.series_details, 1, k), Now)]
    /\ IF k < Len(data.series_details)
       THEN /\ Raise
            /\ report' = report \cup
                   {Announced("series_details", data.series_details)}
       ELSE /\ lpc' = StepAfter("series_details")
            /\ report' = report \cup
                   {Announced("series_details", data.series_details),
                    Loaded("series_details", data.series_details,
                           data.series_details)}
            /\ UNCHANGED raised
    /\ UNCHANGED <<store, data, season_id_map, episode_id_map, dropped,
                   commits, rollbacks, runs, store_before, upstream>>
    /\ UNCHANGED otherThanLoad

\* Step 6: skipped for an empty list (and step 7 with it).
LoadSeasons(k) ==
    /\ lpc = "seasons"
    /\ k \in 0..Len(data.seasons)
    /\ IF data.seasons = <<>>
       THEN /\ lpc' = StepAfter("season_translations")
            /\ UNCHANGED <<db, season_id_map, report, raised>>
       ELSE LET r == LoadSeasonRows(db.seasons, EmptyMap,
                                    SubSeq(data.seasons, 1, k), Now) IN
            /\ db' = [db EXCEPT !.seasons = r.table]
            /\ season_id_map' = r.map
            /\ IF k < Len(data.seasons)
               THEN /\ Raise
                    /\ report' = report \cup
                           {Announced("seasons", data.seasons)}
               ELSE /\ lpc' = StepAfter("seasons")
                    /\ report' = report \cup
                           {Announced("seasons", data.seasons),
                            Loaded("seasons", data.seasons, data.seasons)}
                    /\ UNCHANGED raised
    /\ UNCHANGED <<store, data, episode_id_map, dropped, commits, rollbacks,
                   runs, store_before, upstream>>
    /\ UNCHANGED otherThanLoad

\* Step 7: the translations whose season is in season_id_map are loaded.
LoadSeasonTranslations(k) ==
    /\ lpc = "season_translations"
    /\ LET rows == data.season_translations
           kept == SeasonTransWithIds(rows, season_id_map) IN
       /\ k \in 0..Len(kept)
       /\ IF rows = <<>>
          THEN /\ lpc' = StepAfter("season_translations")
               /\ UNCHANGED <<db, report, dropped, raised>>
          ELSE /\ db' = [db EXCEPT !.season_translations =
                            LoadTranslationRows(@, SubSeq(kept, 1, k), Now)]
               /\ dropped' = [dropped EXCEPT !["season_translations"] =
                      MissingSeason(rows, season_id_map)]
               /\ IF k < Len(kept)
                  THEN /\ Raise
                       /\ report' = report \cup
                              {Announced("season_translations", rows)}
                  ELSE /\ lpc' = StepAfter("season_translations")
                       /\ report' = report \cup
                              {Announced("season_translations", rows),
                               Loaded("season_translations", rows, kept)}
                       /\ UNCHANGED raised
    /\ UNCHANGED <<store, data, season_id_map, episode_id_map, commits,
                   rollbacks, runs, store_before, upstream>>
    /\ UNCHANGED otherThanLoad

\* Step 8: skipped for an empty list (and step 9 with it); season_id_map is
\* read from the seasons table.
LoadEpisodes(k) ==
    /\ lpc = "episodes"
    /\ LET rows == data.episodes
           smap == SelectSeasons(db.seasons)
           kept == EpisodesWithSeasonIds(rows, smap)
           r == LoadEpisodeRows(db.episodes, EmptyMap, SubSeq(kept, 1, k),
                                Now) IN
       /\ k \in 0..Len(kept)
       /\ IF rows = <<>>
          THEN /\ lpc' = StepAfter("episode_translations")
               /\ UNCHANGED <<db, season_id_map, episode_id_map, report,
                              dropped, raised>>
          ELSE /\ season_id_map' = smap
               /\ db' = [db EXCEPT !.episodes = r.table]
               /\ episode_id_map' = r.map
               /\ dropped' = [dropped EXCEPT !["episodes"] =
                      MissingSeason(rows, smap)]
               /\ IF k < Len(kept)
                  THEN /\ Raise
                       /\ report' = report \cup {Announced("episodes", rows)}
                  ELSE /\ lpc' = StepAfter("episodes")
                       /\ report' = report \cup
                              {Announced("episodes", rows),
                               Loaded("episodes", rows, kept)}
                       /\ UNCHANGED raised
    /\ UNCHANGED <<store, data, commits, rollbacks, runs, store_before,
                   upstream>>
    /\ UNCHANGED otherThanLoad

\* Step 9: the translations whose episode is in episode_id_map are loaded.
LoadEpisodeTranslations(k) ==
    /\ lpc = "episode_translations"
    /\ LET rows == data.episode_translations
           kept == EpisodeTransWithIds(rows, season_id_map, episode_id_map) IN
       /\ k \in 0..Len(kept)
       /\ IF rows = <<>>
          THEN /\ lpc' = StepAfter("episode_translations")
               /\ UNCHANGED <<db, report, dropped, raised>>
          ELSE /\ db' = [db EXCEPT !.episode_translations =
                            LoadTranslationRows(@, SubSeq(kept, 1, k), Now)]
               /\ dropped' = [dropped EXCEPT !["episode_translations"] =
                      MissingEpisode(rows, season_id_map, episode_id_map)]
               /\ IF k < Len(kept)
                  THEN /\ Raise
                       /\ report' = report \cup
                              {Announced("episode_translations", rows)}
                  ELSE /\ lpc' = StepAfter("episode_translations")
                       /\ report' = report \cup
                              {Announced("episode_translations", rows),
                               Loaded("episode_translations", rows, kept)}
                       /\ UNCHANGED raised
    /\ UNCHANGED <<store, data, season_id_map, episode_id_map, commits,
                   rollbacks, runs, store_before, upstream>>
    /\ UNCHANGED otherThanLoad

\* BaseLoader.__exit__ with a test that never sees the exception.
ExitCleanAlways(exc) == TRUE
\* exc_type is None
ExitClean(exc) == ~exc

\* BaseLoader.__exit__: commit or rollback, then the connection is closed.
Exit ==
    /\ lpc = "exit"
    /\ IF ExitClean(raised)
       THEN /\ commits' = commits + 1
            /\ store' = db
            /\ UNCHANGED <<db, rollbacks>>
       ELSE /\ rollbacks' = rollbacks + 1
            /\ db' = store
            /\ UNCHANGED <<store, commits>>
    /\ lpc' = "done"
    /\ UNCHANGED <<data, raised, season_id_map, episode_id_map, report,
                   dropped, runs, store_before, upstream>>
    /\ UNCHANGED otherThanLoad

\* No loader has run yet, on an empty database.
IdleLoader ==
    /\ store = EmptyStore
    /\ db = EmptyStore
    /\ lpc = "idle"
    /\ data = NoRows
    /\ raised = FALSE
    /\ season_id_map = EmptyMap
    /\ episode_id_map = EmptyMap
    /\ report = {}
    /\ dropped = NoDropped
    /\ commits = 0
    /\ rollbacks = 0
    /\ runs = 0
    /\ store_before = EmptyStore

NoLoad == IdleLoader /\ upstream = NoRows

\* ------------------------------------------------------ fetch_movies_batch
\* The value get_movie_full_data returns for the ID at position t of
\* movie_ids: the record of that movie, or None (0).
MovieResult(tk, t) == IF tk.result = "payload" THEN t ELSE 0

\* A filter that stops at the first None.
RECURSIVE UntilNone(_)
UntilNone(results) ==
    IF results = <<>> \/ Head(results) = 0 THEN <<>>
    ELSE <<Head(results)>> \o UntilNone(Tail(results))

\* [r for r in results if r is not None]
RECURSIVE NotNone(_)
NotNone(results) ==
    IF results = <<>> THEN <<>>
    ELSE (IF Head(results) # 0 THEN <<Head(results)>> ELSE <<>>)
         \o NotNone(Tail(results))

\* What fetch_movies_batch returns once gather has every call's result.
FetchMoviesBatch(tasks) ==
    NotNone([t \in DOMAIN tasks |-> MovieResult(tasks[t], t)])

\* ------------------------------------------- loaders and their clients
\* One loader object of each kind; run() may be called on it again.
LoaderKinds == {"movie", "series", "person"}

\* A use of the gates of client c inside asyncio.run number l.
UseGates(c, l) == gate_use \cup {<<c, l>>}

\* MovieLoader.__init__ and PersonLoader.__init__ construct the client;
\* SeriesLoader.__init__ sets self.client = None.
Construct(kind) ==
    /\ gpc[kind] = "new"
    /\ gpc' = [gpc EXCEPT ![kind] = "ready"]
    /\ IF kind = "series"
       THEN UNCHANGED <<gclient, clients_made>>
       ELSE /\ clients_made' = clients_made + 1
            /\ gclient' = [gclient EXCEPT ![kind] = clients_made + 1]
    /\ UNCHANGED <<loops, gate_use, extract_calls>>
    /\ UNCHANGED otherThanGates

\* MovieLoader.extract, step 1: the IDs come from asyncio.run(
\* strategy.get_movie_ids()) for the discover strategies, whose page requests
\* use no client, or from the export file without an event loop.
MovieGetIds(is_async, found) ==
    /\ gpc["movie"] = "ready"
    /\ extract_calls < MaxExtracts
    /\ extract_calls' = extract_calls + 1
    /\ loops' = IF is_async THEN loops + 1 ELSE loops
    /\ gpc' = [gpc EXCEPT !["movie"] = IF found THEN "ids" ELSE "ready"]
    /\ UNCHANGED <<gclient, clients_made, gate_use>>
    /\ UNCHANGED otherThanGates

\* MovieLoader.extract, step 2:
\* asyncio.run(self.async_client.fetch_movies_batch(movie_ids)).
MovieFetch ==
    /\ gpc["movie"] = "ids"
    /\ loops' = loops + 1
    /\ gate_use' = UseGates(gclient["movie"], loops + 1)
    /\ gpc' = [gpc EXCEPT !["movie"] = "ready"]
    /\ UNCHANGED <<gclient, clients_made, extract_calls>>
    /\ UNCHANGED otherThanGates

\* SeriesLoader.extract: asyncio.run(_async_extract()), which constructs
\* the client and the strategy and makes all the requests.
SeriesExtract ==
    /\ gpc["series"] = "ready"
    /\ extract_calls < MaxExtracts
    /\ extract_calls' = extract_calls + 1
    /\ loops' = loops + 1
    /\ clients_made' = clients_made + 1
    /\ gclient' = [gclient EXCEPT !["series"] = clients_made + 1]
    /\ gate_use' = UseGates(clients_made + 1, loops + 1)
    /\ UNCHANGED gpc
    /\ UNCHANGED otherThanGates

\* PersonLoader.extract, step 1: the IDs come from the credits of the
\* content in the database ("content": asyncio.run(fetch_all_credits());
\* "empty": the database holds no content and no event loop is started) or
\* from asyncio.run(_extract_top_persons()) ("top"); both runs make their
\* requests through self.client.
PersonGetIds(source, found) ==
    /\ gpc["person"] \in {"ready", "raised"}
    /\ extract_calls < MaxExtracts
    /\ extract_calls' = extract_calls + 1
    /\ IF source = "empty"
       THEN UNCHANGED <<loops, gate_use>>
       ELSE /\ loops' = loops + 1
            /\ gate_use' = UseGates(gclient["person"], loops + 1)
    /\ gpc' = [gpc EXCEPT !["person"] =
                  IF source # "empty" /\ found THEN "ids" ELSE "ready"]
    /\ UNCHANGED <<gclient, clients_made>>
    /\ UNCHANGED otherThanGates

\* PersonLoader.extract, step 2: AsyncTMDBClient has no fetch_persons_batch;
\* evaluating the argument of asyncio.run raises AttributeError and extract
\* ends ("raised") before an event loop is started.
PersonFetch ==
    /\ gpc["person"] = "ids"
    /\ gpc' = [gpc EXCEPT !["person"] = "raised"]
    /\ UNCHANGED <<gclient, clients_made, loops, gate_use, extract_calls>>
    /\ UNCHANGED otherThanGates

\* No loader object exists.
NoGates ==
    /\ gpc = [k \in LoaderKinds |-> "new"]
    /\ gclient = [k \in LoaderKinds |-> 0]
    /\ clients_made = 0
    /\ loops = 0
    /\ gate_use = {}
    /\ extract_calls = 0

\* --------------------------------------- SeriesDiscoverStrategy, details
\* The catalogue upstream: the seasons of each series as /tv/{id} lists
\* them (season 0 is the specials), and the episode numbers of each season
\* as /tv/{id}/season/{n} lists them.
SeriesIds == {1, 2}

SeasonsOf(sid) == IF sid = 1 THEN <<0, 1>> ELSE <<1, 2>>

EpisodesOf(sid, sn) ==
    IF sid = 1 /\ sn = 1 THEN <<1, 2>>
    ELSE IF sn = 2 THEN <<>>
    ELSE <<1>>

\* Every (series, season) pair and every (series, season, episode) triple.
AllPairs ==
    UNION {{<<sid, SeasonsOf(sid)[i]>> : i \in DOMAIN SeasonsOf(sid)} :
              sid \in SeriesIds}

TriplesOf(pair) ==
    [i \in 1..Len(EpisodesOf(pair[1], pair[2])) |->
        <<pair[1], pair[2], EpisodesOf(pair[1], pair[2])[i]>>]

AllTriples ==
    UNION {{TriplesOf(p)[i] : i \in DOMAIN TriplesOf(p)} : p \in AllPairs}

\* The lists fetch_series_full_data may be given.
SeriesLists ==
    UNION {[1..n -> SeriesIds] : n \in 0..MaxSeries}

\* `if self.load_episodes:` in fetch_series_full_data.
WantsEpisodesAlways(flag) == TRUE

WantsEpisodes(flag) == flag

\* `if season_number > 0:`, which skips the specials.
AnySeason(sn) == TRUE

RealSeason(sn) == sn > 0

\* The season_tasks of one series, and of the series fetched.
PairsOf(sid) ==
    LET ss == SelectSeq(SeasonsOf(sid), RealSeason)
    IN  [i \in 1..Len(ss) |-> <<sid, ss[i]>>]

RECURSIVE SeasonTasks(_)
SeasonTasks(sd) ==
    IF sd = <<>> THEN <<>>
    ELSE PairsOf(Head(sd)) \o SeasonTasks(Tail(sd))

\* episode_translation_tasks: the episodes of the keys of episodes_map.
RECURSIVE EpisodeTranslationTasks(_)
EpisodeTranslationTasks(keys) ==
    IF keys = <<>> THEN <<>>
    ELSE TriplesOf(Head(keys)) \o EpisodeTranslationTasks(Tail(keys))

\* The times x occurs in seq.
Occurrences(seq, x) == Cardinality({i \in DOMAIN seq : seq[i] = x})

\* The tasks of a gather over the items of batch, none of them done yet.
Pending(batch) ==
    [i \in DOMAIN batch |-> [key |-> batch[i], st |-> "pending", rank |-> 0]]

\* The tasks of the gather that have ended.
Finished(ts) == {i \in DOMAIN ts : ts[i].st # "pending"}

\* Results handed back in the order the requests ended.
ResultsAsCompleted(ts) ==
    [i \in DOMAIN ts |-> ts[CHOOSE j \in DOMAIN ts : ts[j].rank = i]]

\* What gather returns: the results in the order of the tasks it was given,
\* whatever order they ended in.
ResultsInTaskOrder(ts) == ts

Gathered == \A i \in DOMAIN ftasks : ftasks[i].st # "pending"

\* [r for r in results if r is not None], as the IDs of the series.
RECURSIVE FetchedSeries(_)
FetchedSeries(ts) ==
    IF ts = <<>> THEN <<>>
    ELSE (IF Head(ts).st = "ok" THEN <<Head(ts).key>> ELSE <<>>)
         \o FetchedSeries(Tail(ts))

\* episodes_map after `if episodes: episodes_map[(series_id, season_num)] =
\* episodes` over the batch; a key already present keeps its place.
RECURSIVE StoreEpisodes(_, _)
StoreEpisodes(keys, ts) ==
    IF ts = <<>> THEN keys
    ELSE LET t == Head(ts)
             has == t.st = "ok" /\ EpisodesOf(t.key[1], t.key[2]) # <<>>
             in == \E i \in DOMAIN keys : keys[i] = t.key
         IN  StoreEpisodes(IF has /\ ~in THEN Append(keys, t.key) ELSE keys,
                           Tail(ts))

\* fetch_series_full_data, step 1: one _fetch_series_with_seasons per ID.
FanSeries ==
    /\ fpc = "start"
    /\ ftasks' = Pending(series_ids)
    /\ fpc' = "series"
    /\ UNCHANGED <<load_episodes, series_ids, fqueue, series_data,
                   episodes_map, returned, season_requests,
                   translation_requests>>
    /\ UNCHANGED written
    /\ UNCHANGED otherThanFan

\* One call of client._request ends, with data (ok) or with None.
FanTaskDone(i, ok) ==
    /\ fpc \in {"series", "seasons", "translations"}
    /\ i \in DOMAIN ftasks
    /\ ftasks[i].st = "pending"
    /\ ftasks' = [ftasks EXCEPT ![i].st = IF ok THEN "ok" ELSE "none",
                                ![i].rank = Cardinality(Finished(ftasks)) + 1]
    /\ returned' =
          IF fpc = "seasons" /\ ok
          THEN returned \cup {TriplesOf(ftasks[i].key)[j] :
                                 j \in DOMAIN TriplesOf(ftasks[i].key)}
          ELSE returned
    /\ UNCHANGED <<load_episodes, series_ids, fpc, fqueue, series_data,
                   episodes_map, season_requests, translation_requests>>
    /\ UNCHANGED written
    /\ UNCHANGED otherThanFan

\* The gather of step 1 returns; step 2 runs only `if self.load_episodes`
\* and begins by collecting season_tasks.
FanSeriesGathered ==
    /\ fpc = "series"
    /\ Gathered
    /\ series_data' = FetchedSeries(ftasks)
    /\ ftasks' = <<>>
    /\ IF WantsEpisodes(load_episodes)
       THEN /\ fqueue' = SeasonTasks(series_data')
            /\ fpc' = "season_batch"
       ELSE /\ fqueue' = <<>>
            /\ fpc' = "done"
    /\ UNCHANGED <<load_episodes, series_ids, episodes_map, returned,
                   season_requests, translation_requests>>
    /\ UNCHANGED written
    /\ UNCHANGED otherThanFan

\* _fetch_all_episodes_with_translations, step 2: the next batch of
\* _fetch_season_episodes calls; after the last batch the episodes of
\* episodes_map become episode_translation_tasks.
FanSeasonBatch ==
    /\ fpc = "season_batch"
    /\ IF fqueue = <<>>
       THEN /\ fqueue' = EpisodeTranslationTasks(episodes_map)
            /\ fpc' = "translation_batch"
            /\ UNCHANGED <<ftasks, season_requests>>
       ELSE LET n == Min(SEASON_BATCH_SIZE, Len(fqueue))
                batch == SubSeq(fqueue, 1, n)
            IN  /\ ftasks' = Pending(batch)
                /\ fqueue' = SubSeq(fqueue, n + 1, Len(fqueue))
                /\ season_requests' =
                      [p \in AllPairs |->
                          season_requests[p] + Occurrences(batch, p)]
                /\ fpc' = "seasons"
    /\ UNCHANGED <<load_episodes, series_ids, series_data, episodes_map,
                   returned, translation_requests>>
    /\ UNCHANGED written
    /\ UNCHANGED otherThanFan

\* The gather of a season batch returns and its episodes are stored.
FanSeasonsGathered ==
    /\ fpc = "seasons"
    /\ Gathered
    /\ episodes_map' = StoreEpisodes(episodes_map, ftasks)
    /\ ftasks' = <<>>
    /\ fpc' = "season_batch"
    /\ UNCHANGED <<load_episodes, series_ids, fqueue, series_data, returned,
                   season_requests, translation_requests>>
    /\ UNCHANGED written
    /\ UNCHANGED otherThanFan

\* Step 3: the next batch of _fetch_episode_translations calls.
FanTranslationBatch ==
    /\ fpc = "translation_batch"
    /\ IF fqueue = <<>>
       THEN /\ fpc' = "done"
            /\ UNCHANGED <<ftasks, fqueue, translation_requests>>
       ELSE LET n == Min(TRANSLATION_BATCH_SIZE, Len(fqueue))
                batch == SubSeq(fqueue, 1, n)
            IN  /\ ftasks' = Pending(batch)
                /\ fqueue' = SubSeq(fqueue, n + 1, Len(fqueue))
                /\ translation_requests' =
                      [t \in AllTriples |->
                          translation_requests[t] + Occurrences(batch, t)]
                /\ fpc' = "translations"
    /\ UNCHANGED <<load_episodes, series_ids, series_data, episodes_map,
                   returned, season_requests>>
    /\ UNCHANGED written
    /\ UNCHANGED otherThanFan

\* The gather of a translation batch returns.
FanTranslationsGathered ==
    /\ fpc = "translations"
    /\ Gathered
    /\ LET results == ResultsInTaskOrder(ftasks) IN
       written' = written \cup
           {[episode |-> ftasks[i].key, from |-> results[i].key,
             rank |-> results[i].rank] : i \in DOMAIN ftasks}
    /\ ftasks' = <<>>
    /\ fpc' = "translation_batch"
    /\ UNCHANGED <<load_episodes, series_ids, fqueue, series_data,
                   episodes_map, returned, season_requests,
                   translation_requests>>
    /\ UNCHANGED otherThanFan

\* The most tasks one gather holds.
MaxFanTasks ==
    IF MaxSeries >= SEASON_BATCH_SIZE /\ MaxSeries >= TRANSLATION_BATCH_SIZE
    THEN MaxSeries
    ELSE IF SEASON_BATCH_SIZE >= TRANSLATION_BATCH_SIZE
         THEN SEASON_BATCH_SIZE ELSE TRANSLATION_BATCH_SIZE

\* fetch_series_full_data has not been called.
IdleFan ==
    /\ fpc = "start"
    /\ ftasks = <<>>
    /\ fqueue = <<>>
    /\ series_data = <<>>
    /\ episodes_map = <<>>
    /\ returned = {}
    /\ season_requests = [p \in AllPairs |-> 0]
    /\ translation_requests = [t \in AllTriples |-> 0]
    /\ written = {}

NoFan == IdleFan /\ load_episodes = FALSE /\ series_ids = <<>>

\* ------------------------------------------------------- ETLOrchestrator
\* The stages of run_dictionaries, in order, and the stages after it.
DictStages == <<"Genres", "Countries", "Languages", "Careers">>

DictNames == {DictStages[i] : i \in DOMAIN DictStages}

LaterNames == {"Movies", "Series", "Persons"}

\* What a stage takes of time.time(), in ticks.
StageTimes == {0, 1}

\* A run_stage that records a failure twice.
ErrorsAfterTwice(errs, name, ok) ==
    IF ok THEN errs ELSE errs \o <<name, name>>

\* run_stage: loader_func() returns, or raises an Exception, which is
\* caught and recorded in self.errors.
ErrorsAfter(errs, name, ok) == IF ok THEN errs ELSE Append(errs, name)

\* `return success_count == len(stages)` passing with one success.
DictionariesOkAny(count) == count > 0

\* `return success_count == len(stages)`
DictionariesOk(count) == count = Len(DictStages)

\* A pipeline that stops at the first stage that fails.
AfterStageStop(next, ok) == IF ok THEN next ELSE "report"

\* run_all goes on to the next stage whatever run_stage returned.
AfterStage(next, ok) == next

\* run_all is called: start_time is taken and run_dictionaries begins.
RunAll(persons) ==
    /\ opc = "idle"
    /\ load_persons' = persons
    /\ start_time' = wall
    /\ opc' = DictStages[1]
    /\ UNCHANGED <<started, errors, success_count, wall, final_report,
                   run_result, raised_in>>
    /\ UNCHANGED otherThanOrch

\* run_dictionaries: one loader of the list runs; the loop goes on whether
\* it succeeded or not.
RunDictionary(i, ok, d) ==
    /\ i \in DOMAIN DictStages
    /\ opc = DictStages[i]
    /\ started' = started \cup {DictStages[i]}
    /\ errors' = ErrorsAfter(errors, DictStages[i], ok)
    /\ raised_in' = IF ok THEN raised_in ELSE raised_in \cup {DictStages[i]}
    /\ success_count' = IF ok THEN success_count + 1 ELSE success_count
    /\ wall' = wall + d
    /\ opc' = IF i < Len(DictStages) THEN DictStages[i + 1] ELSE "dictionaries"
    /\ UNCHANGED <<load_persons, start_time, final_report, run_result>>
    /\ UNCHANGED otherThanOrch

\* `if not self.run_dictionaries(): return False`
DictionariesDone ==
    /\ opc = "dictionaries"
    /\ IF DictionariesOk(success_count)
       THEN /\ opc' = "Movies"
            /\ UNCHANGED run_result
       ELSE /\ opc' = "returned"
            /\ run_result' = <<FALSE>>
    /\ UNCHANGED <<load_persons, started, errors, success_count, start_time,
                   wall, final_report, raised_in>>
    /\ UNCHANGED otherThanOrch

\* run_movies, run_series: the stage runs and run_all prints a warning when
\* it failed; the persons stage runs `if load_persons`.
RunLater(name, ok, d) ==
    /\ opc = name
    /\ name \in LaterNames
    /\ started' = started \cup {name}
    /\ errors' = ErrorsAfter(errors, name, ok)
    /\ raised_in' = IF ok THEN raised_in ELSE raised_in \cup {name}
    /\ wall' = wall + d
    /\ opc' = AfterStage(CASE name = "Movies" -> "Series"
                           [] name = "Series" ->
                                IF load_persons THEN "Persons" ELSE "report"
                           [] name = "Persons" -> "report",
                         ok)
    /\ UNCHANGED <<load_persons, success_count, start_time, final_report,
                   run_result>>
    /\ UNCHANGED otherThanOrch

\* _print_final_report, and `return len(self.errors) == 0`.
FinalReport ==
    /\ opc = "report"
    /\ final_report' = <<[elapsed |-> wall - start_time, errors |-> errors]>>
    /\ run_result' = <<errors = <<>>>>
    /\ opc' = "returned"
    /\ UNCHANGED <<load_persons, started, errors, success_count, start_time,
                   wall, raised_in>>
    /\ UNCHANGED otherThanOrch

\* run_all has not been called on the new ETLOrchestrator.
NoOrch ==
    /\ opc = "idle"
    /\ load_persons = FALSE
    /\ started = {}
    /\ errors = <<>>
    /\ success_count = 0
    /\ start_time = 0
    /\ wall = 0
    /\ final_report = <<>>
    /\ run_result = <<>>
    /\ raised_in = {}

\* ------------------------------------------- configuration of a stage
\* The strategy names a loader may be given.
StrategyNames == {"discover", "discover-segmented", "export", "top"}

\* MovieLoader.STRATEGIES, and the one name SeriesLoader accepts.
KnownStrategy(kind, name) ==
    IF kind = "movie"
    THEN name \in {"discover", "discover-segmented", "export"}
    ELSE name = "discover"

\* A loader that does not look at the token.
TokenMissingNever(token) == FALSE

\* `if not self.bearer_token: raise ValueError(...)`
TokenMissing(token) == ~token

\* run_stage calls loader_func: the loader is constructed.
\* MovieLoader.__init__ reads the token and raises without it;
\* SeriesLoader.__init__ reads no token.
CfgConstruct ==
    /\ cpc = "new"
    /\ IF cfg_kind = "movie" /\ TokenMissing(cfg_token)
       THEN /\ cpc' = "failed"
            /\ stage_failed' = TRUE
       ELSE /\ cpc' = "constructed"
            /\ UNCHANGED stage_failed
    /\ UNCHANGED <<cfg_kind, cfg_token, cfg_strategy, cfg_conn, cfg_raising,
                   http_sent, rows_written>>
    /\ UNCHANGED otherThanCfg

\* run(): `with self` opens the connection; the reference data is read
\* from the database.
CfgEnter ==
    /\ cpc = "constructed"
    /\ cfg_conn' = "open"
    /\ cpc' = "extract"
    /\ UNCHANGED <<cfg_kind, cfg_token, cfg_strategy, cfg_raising, http_sent,
                   rows_written, stage_failed>>
    /\ UNCHANGED otherThanCfg

\* extract() begins.  MovieLoader._create_strategy raises on an unknown
\* name; SeriesLoader._create_client_and_strategy constructs the client,
\* which raises without the token, and then raises on an unknown name.
CfgCreate ==
    /\ cpc = "extract"
    /\ IF \/ cfg_kind = "series" /\ TokenMissing(cfg_token)
          \/ ~KnownStrategy(cfg_kind, cfg_strategy)
       THEN /\ cfg_raising' = TRUE
            /\ cpc' = "exit"
       ELSE /\ cpc' = "fetch"
            /\ UNCHANGED cfg_raising
    /\ UNCHANGED <<cfg_kind, cfg_token, cfg_strategy, cfg_conn, http_sent,
                   rows_written, stage_failed>>
    /\ UNCHANGED otherThanCfg

\* The strategy and the detail fetch issue an HTTP request.
CfgRequest ==
    /\ cpc = "fetch"
    /\ http_sent < MaxHttp
    /\ http_sent' = http_sent + 1
    /\ UNCHANGED <<cfg_kind, cfg_token, cfg_strategy, cpc, cfg_conn,
                   cfg_raising, rows_written, stage_failed>>
    /\ UNCHANGED otherThanCfg

\* extract() ends: with data, with none (run returns inside the block), or
\* with an exception.
CfgExtracted(outcome) ==
    /\ cpc = "fetch"
    /\ cpc' = IF outcome = "data" THEN "load" ELSE "exit"
    /\ cfg_raising' = (outcome = "raise")
    /\ UNCHANGED <<cfg_kind, cfg_token, cfg_strategy, cfg_conn, http_sent,
                   rows_written, stage_failed>>
    /\ UNCHANGED otherThanCfg

\* transform and load: rows are written, and a statement may fail.
CfgLoad(ok) ==
    /\ cpc = "load"
    /\ rows_written' = rows_written + 1
    /\ cfg_raising' = ~ok
    /\ cpc' = "exit"
    /\ UNCHANGED <<cfg_kind, cfg_token, cfg_strategy, cfg_conn, http_sent,
                   stage_failed>>
    /\ UNCHANGED otherThanCfg

\* BaseLoader.__exit__, and run_stage recording the exception.
CfgExit ==
    /\ cpc = "exit"
    /\ cfg_conn' = IF cfg_raising THEN "rolled back" ELSE "committed"
    /\ cpc' = IF cfg_raising THEN "failed" ELSE "completed"
    /\ stage_failed' = cfg_raising
    /\ UNCHANGED <<cfg_kind, cfg_token, cfg_strategy, cfg_raising, http_sent,
                   rows_written>>
    /\ UNCHANGED otherThanCfg

\* No stage has been started.
IdleCfg ==
    /\ cpc = "new"
    /\ cfg_conn = "none"
    /\ cfg_raising = FALSE
    /\ http_sent = 0
    /\ rows_written = 0
    /\ stage_failed = FALSE

NoCfg ==
    /\ IdleCfg
    /\ cfg_kind = "movie"
    /\ cfg_token = TRUE
    /\ cfg_strategy = "discover"

\* ------------------------------------------- the download of the export
\* What a request for an export file can end with:
\*   200       the file is written to local_path
\*   cut       200, and iter_content raises a RequestException after the
\*             file was opened for writing
\*   403       the file is not published
\*   other     any other status
\*   neterror  requests.get raises a RequestException
ExportAnswers == {"200", "cut", "403", "other", "neterror"}

\* The date of the candidate days_back days before today.
CandidateDate(day, back) == day - back

\* A loader that never finds a cached file.
CachedNever(date, files) == FALSE

\* os.path.exists(local_path)
Cached(date, files) == date \in files

\* A loop that never runs out of candidates.
ExhaustedNever(back) == FALSE

\* `for days_back in range(max_retries)` has run out.
Exhausted(back) == back >= max_retries

\* get_movie_ids / get_filtered_ids is called, d days after the run before.
ExportStart(d) ==
    /\ epc \in {"idle", "done"}
    /\ export_runs < MaxExports
    /\ today + d <= max_retries + MaxDays
    /\ today' = today + d
    /\ export_runs' = export_runs + 1
    /\ epc' = "probe"
    /\ days_back' = 0
    /\ probes' = <<>>
    /\ cache_before' = cache
    /\ export_file' = <<>>
    /\ export_raised' = FALSE
    /\ UNCHANGED <<cache, partial>>
    /\ UNCHANGED otherThanExp

\* One iteration of the loop of _download_export: the cached file is
\* returned without a request; otherwise the file is requested and, on
\* 200, written and returned; on every other answer the loop goes on.
ExportProbe(answer) ==
    /\ epc = "probe"
    /\ ~Exhausted(days_back)
    /\ LET date == CandidateDate(today, days_back) IN
       IF Cached(date, cache)
       THEN /\ export_file' = <<date>>
            /\ epc' = "returned"
            /\ UNCHANGED <<cache, partial, days_back, probes>>
       ELSE /\ probes' = Append(probes, [date |-> date, answer |-> answer])
            /\ cache' = IF answer \in {"200", "cut"}
                        THEN cache \cup {date} ELSE cache
            /\ partial' = IF answer = "cut"
                          THEN partial \cup {date} ELSE partial
            /\ IF answer = "200"
               THEN /\ export_file' = <<date>>
                    /\ epc' = "returned"
                    /\ UNCHANGED days_back
               ELSE /\ days_back' = days_back + 1
                    /\ UNCHANGED <<export_file, epc>>
    /\ UNCHANGED <<today, cache_before, export_raised, export_runs>>
    /\ UNCHANGED otherThanExp

\* The loop ended without a file: _download_export returns None.
ExportExhausted ==
    /\ epc = "probe"
    /\ Exhausted(days_back)
    /\ epc' = "returned"
    /\ UNCHANGED <<today, cache, partial, days_back, probes, cache_before,
                   export_file, export_raised, export_runs>>
    /\ UNCHANGED otherThanExp

\* `if not filepath: raise RuntimeError(...)`; otherwise the file is
\* parsed and the IDs are returned.
ExportEnd ==
    /\ epc = "returned"
    /\ export_raised' = (export_file = <<>>)
    /\ epc' = "done"
    /\ UNCHANGED <<today, cache, partial, days_back, probes, cache_before,
                   export_file, export_runs>>
    /\ UNCHANGED otherThanExp

\* No export has been asked for and data_dir is empty.
NoExport ==
    /\ today = max_retries
    /\ cache = {}
    /\ partial = {}
    /\ epc = "idle"
    /\ days_back = 0
    /\ probes = <<>>
    /\ cache_before = {}
    /\ export_file = <<>>
    /\ export_raised = FALSE
    /\ export_runs = 0

\* ------------------------------------------------------------- the runs
\* ------------------------------------------- the seasons step by itself
\* The keys (content_id, season_number) of the season rows explored.
KeyContents == {5, 6}
KeySeasons == {1, 2}
SeasonRowsOf ==
    [content_id : KeyContents, season_number : KeySeasons, value : {2}]
SeasonRowLists == UNION {[1..n -> SeasonRowsOf] : n \in 0..MaxSeasonRows}

\* The seasons tables the step can find: earlier loads stored the seasons of
\* some keys, with serial ids in some order.
StoredKeys == SUBSET {<<5, 1>>, <<6, 2>>}
StoredSeasons(K, flip) ==
    {[id |-> IF (k = <<5, 1>>) = flip THEN 2 ELSE 1, content_id |-> k[1],
      season_number |-> k[2], value |-> 1, updated_at |-> 0] : k \in K}

\* The ids RETURNING gives for the rows, in the order they are executed.
RECURSIVE ReturnedIds(_, _, _)
ReturnedIds(table, rows, now) ==
    IF rows = <<>> THEN <<>>
    ELSE LET u == UpsertSeason(table, Head(rows), now) IN
         <<u.id>> \o ReturnedIds(u.table, Tail(rows), now)

\* Step 6 of _load_all_tables on its own: the rows are executed one by one;
\* the statement of row k + 1 raises when k is less than their number.
KeyMapLoad(k) ==
    /\ kpc = "start"
    /\ k \in 0..Len(key_rows)
    /\ LET r == LoadSeasonRows(key_table, EmptyMap,
                               SubSeq(key_rows, 1, k), 1) IN
       /\ key_table' = r.table
       /\ key_map' = r.map
    /\ kpc' = IF k < Len(key_rows) THEN "raised" ELSE "loaded"
    /\ UNCHANGED <<key_rows, key_before>>
    /\ UNCHANGED otherThanKey

NoKeyMap ==
    /\ kpc = "idle"
    /\ key_rows = <<>>
    /\ key_before = {}
    /\ key_table = {}
    /\ key_map = EmptyMap

\* The step begins on some list of rows and some table.
KeyMapStart ==
    /\ kpc = "start"
    /\ key_rows \in SeasonRowLists
    /\ key_before \in {StoredSeasons(K, flip) :
                         K \in StoredKeys, flip \in BOOLEAN}
    /\ key_table = key_before
    /\ key_map = EmptyMap

NoAgain ==
    /\ disc_runs = 0
    /\ first_output = <<>>

Years == year_from..year_to
Strategies == {"direct", "segmented", "export", "series"}

\* No discovery run: the state of the discovery variables in SpecRate and
\* SpecReq.
NoDiscovery ==
    /\ strategy = "none"
    /\ target_count = 0
    /\ catalog = <<>>
    /\ listing = [y \in Years |-> <<>>]
    /\ snapshot = <<>>
    /\ dpc = "idle"
    /\ year_pos = 1
    /\ next_page = 1
    /\ pages = NoPages
    /\ requested = NoRequests
    /\ movie_ids = <<>>
    /\ seen_ids = {}
    /\ output = <<>>
    /\ fetch_failed = FALSE

InitClient ==
    /\ clock = 0
    /\ request_times = <<>>
    /\ rl = [c \in Callers |-> IdleCaller]
    /\ grants = <<>>
    /\ semaphore = MAX_CONCURRENT
    /\ task = [t \in Tasks |-> InitTask]


Init ==
    /\ InitClient /\ NoDiscovery /\ NoLoad /\ NoGates /\ NoFan /\ NoOrch
    /\ NoCfg
    /\ NoExport
    /\ NoKeyMap
    /\ NoAgain

\* A strategy object is constructed and its run starts, against some
\* upstream content.
InitDisc ==
    /\ InitClient
    /\ strategy \in Strategies
    /\ target_count \in TargetCounts
    /\ catalog \in (IF strategy \in {"direct", "series"} THEN Listings
                    ELSE {<<>>})
    /\ listing \in (IF strategy = "segmented"
                    THEN {f \in [Years -> ListingsFrom(1..MaxStart)] :
                            \A y \in Years : f[y] \in YearListings(y)}
                    ELSE {[y \in Years |-> <<>>]})
    /\ snapshot \in (IF strategy = "export" THEN Snapshots ELSE {<<>>})
    /\ dpc = "start"
    /\ year_pos = 1
    /\ next_page = 1
    /\ pages = NoPages
    /\ requested = NoRequests
    /\ movie_ids = <<>>
    /\ seen_ids = {}
    /\ output = <<>>
    /\ fetch_failed = FALSE
    /\ NoLoad
    /\ NoGates
    /\ NoFan
    /\ NoOrch
    /\ NoCfg
    /\ NoExport
    /\ NoKeyMap
    /\ disc_runs = 1
    /\ first_output = <<>>

NextDisc ==
    \/ \E p \in Pages : PageOk(p)
    \/ \E p \in Pages : PageFail(p)
    \/ \E p \in Pages : PageThrottled(p)
    \/ \E p \in Pages : PageRetry(p)
    \/ DirectStart
    \/ DirectCollect
    \/ SegLoop
    \/ SegFirstDone
    \/ SegGatherDone
    \/ SegAgain
    \/ SeriesIssue
    \/ SeriesCollect
    \/ \E found \in BOOLEAN : ExportRun(found)

SpecDisc == InitDisc /\ [][NextDisc]_vars

NextRate ==
    \/ \E c \in Callers : RateLimitCall(c)
    \/ \E c \in Callers : RateLimitWake(c)
    \/ TickRate

SpecRate == Init /\ [][NextRate]_vars

NextReq ==
    \/ \E t \in Tasks : ReqAcquire(t)
    \/ \E t \in Tasks : ReqRateWake(t)
    \/ \E t \in Tasks, resp \in Responses : ReqRespond(t, resp)
    \/ \E t \in Tasks, h \in RetryAfterHeaders : ReqThrottled(t, h)
    \/ \E t \in Tasks : ReqBackoffWake(t)
    \/ TickReq

SpecReq == Init /\ [][NextReq]_vars

\* Invocations of SeriesLoader.run(), one after the other, on one database.
NextLoad ==
    \/ LoadRunStart
    \/ \E outcome \in {"raise", "empty", "data"} : Extract(outcome)
    \/ \E d \in RowSets, ok \in BOOLEAN : Transform(d, ok)
    \/ \E k \in 0..MaxRows : LoadContent(k)
    \/ \E k \in 0..MaxRows : LoadSeriesDetails(k)
    \/ \E k \in 0..MaxRows : LoadSeasons(k)
    \/ \E k \in 0..MaxRows : LoadSeasonTranslations(k)
    \/ \E k \in 0..MaxRows : LoadEpisodes(k)
    \/ \E k \in 0..MaxRows : LoadEpisodeTranslations(k)
    \/ Exit

\* The upstream data changes between the invocations (NoRows), or every
\* invocation gets the same row set.
InitLoad ==
    /\ InitClient
    /\ NoDiscovery
    /\ IdleLoader
    /\ upstream \in RowSets \cup {NoRows}
    /\ NoGates
    /\ NoFan
    /\ NoOrch
    /\ NoCfg
    /\ NoExport
    /\ NoKeyMap
    /\ NoAgain

SpecLoad == InitLoad /\ [][NextLoad]_vars

\* The loader objects and their extract() calls.
NextGates ==
    \/ \E kind \in LoaderKinds : Construct(kind)
    \/ \E is_async, found \in BOOLEAN : MovieGetIds(is_async, found)
    \/ MovieFetch
    \/ SeriesExtract
    \/ \E source \in {"content", "empty", "top"}, found \in BOOLEAN :
          PersonGetIds(source, found)
    \/ PersonFetch

SpecGates == Init /\ [][NextGates]_vars

\* fetch_series_full_data over every list and both settings of
\* load_episodes.
NextFan ==
    \/ FanSeries
    \/ \E i \in 1..MaxFanTasks, ok \in BOOLEAN : FanTaskDone(i, ok)
    \/ FanSeriesGathered
    \/ FanSeasonBatch
    \/ FanSeasonsGathered
    \/ FanTranslationBatch
    \/ FanTranslationsGathered

InitFan ==
    /\ InitClient
    /\ NoDiscovery
    /\ NoLoad
    /\ NoGates
    /\ IdleFan
    /\ load_episodes \in BOOLEAN
    /\ series_ids \in SeriesLists
    /\ NoOrch
    /\ NoCfg
    /\ NoExport
    /\ NoKeyMap
    /\ NoAgain

SpecFan == InitFan /\ [][NextFan]_vars

\* run_all with every outcome of every stage.
NextOrch ==
    \/ \E persons \in BOOLEAN : RunAll(persons)
    \/ \E i \in DOMAIN DictStages, ok \in BOOLEAN, d \in StageTimes :
          RunDictionary(i, ok, d)
    \/ DictionariesDone
    \/ \E name \in LaterNames, ok \in BOOLEAN, d \in StageTimes :
          RunLater(name, ok, d)
    \/ FinalReport

SpecOrch == Init /\ [][NextOrch]_vars

\* One movie or series stage under every configuration.
NextCfg ==
    \/ CfgConstruct
    \/ CfgEnter
    \/ CfgCreate
    \/ CfgRequest
    \/ \E outcome \in {"data", "empty", "raise"} : CfgExtracted(outcome)
    \/ \E ok \in BOOLEAN : CfgLoad(ok)
    \/ CfgExit

InitCfg ==
    /\ InitClient
    /\ NoDiscovery
    /\ NoLoad
    /\ NoGates
    /\ NoFan
    /\ NoOrch
    /\ IdleCfg
    /\ cfg_kind \in {"movie", "series"}
    /\ cfg_token \in BOOLEAN
    /\ cfg_strategy \in StrategyNames
    /\ NoExport
    /\ NoKeyMap
    /\ NoAgain

SpecConfig == InitCfg /\ [][NextCfg]_vars

\* Runs of the export download on the same data_dir, days apart.
NextExport ==
    \/ \E d \in 0..MaxDays : ExportStart(d)
    \/ \E answer \in ExportAnswers : ExportProbe(answer)
    \/ ExportExhausted
    \/ ExportEnd

SpecExport == Init /\ [][NextExport]_vars

NextKeyMap == \E k \in 0..MaxSeasonRows : KeyMapLoad(k)

InitKeyMap ==
    /\ InitClient /\ NoDiscovery /\ NoLoad /\ NoGates /\ NoFan /\ NoOrch
    /\ NoCfg /\ NoExport /\ NoAgain
    /\ KeyMapStart

SpecKeyMap == InitKeyMap /\ [][NextKeyMap]_vars


\* ------------------------------------------------------------ claims
\* C1: rate invariant.  Any trailing 1-second window holds at most
\* REQUESTS_PER_SECOND granted acquisitions, a grant being the moment
\* _rate_limit() returns to its caller.
C1_RateInvariant ==
    Len(InWindow(grants, clock)) <= REQUESTS_PER_SECOND

\* ------------------------------------------------------------ claims, SpecReq
RECURSIVE SumDepth(_)
SumDepth(S) ==
    IF S = {} THEN 0
    ELSE LET t == CHOOSE x \in S : TRUE IN task[t].depth + SumDepth(S \ {t})

\* Frames that are inside `async with self.semaphore`, over all calls.
SlotsHeld == SumDepth(Tasks)
\* HTTP requests in flight through the client.
InFlight == Cardinality({t \in Tasks : task[t].pc = "get"})
AllDone == \A t \in Tasks : task[t].pc = "done"

\* C2: concurrency invariant.  At most MAX_CONCURRENT slots are held, and so
\* at most MAX_CONCURRENT HTTP requests are in flight, in every state.
C2_ConcurrencyInvariant ==
    /\ SlotsHeld <= MAX_CONCURRENT
    /\ InFlight <= MAX_CONCURRENT

\* The gate is full and a frame is waiting for a slot.
C2_Witness ==
    /\ SlotsHeld = MAX_CONCURRENT
    /\ \E t \in Tasks : task[t].pc = "acquire"

\* C3: retry on throttling never stops by itself.  A call that is the only
\* unfinished call on the client and is about to issue its next attempt after
\* a 429 is never blocked: a slot is free for it, whatever the number of
\* attempts it has made.
C3_RetryNeverBlocks ==
    \A t \in Tasks :
        ( /\ task[t].pc = "acquire"
          /\ task[t].attempts >= 1
          /\ \A u \in Tasks \ {t} : task[u].pc = "done" )
        => ~SemLocked(semaphore)

\* C4: eventual completion under throttling.  No state is reachable in which
\* calls wait on the ConnectionGate and nothing can ever free a slot: when a
\* call waits for a slot, a slot is free or some unfinished call is not
\* waiting for a slot.
C4_NoGateDeadlock ==
    (\E t \in Tasks : task[t].pc = "acquire")
    => \/ ~SemLocked(semaphore)
       \/ \E u \in Tasks : task[u].pc \notin {"acquire", "done"}

\* C5: no slot leak.  Once every call of the batch has returned, by whatever
\* exit path, all MAX_CONCURRENT slots are free again.
C5_NoSlotLeak == AllDone => semaphore = MAX_CONCURRENT

\* The batch is over, one call left through `except Exception` and one
\* returned after a 429 and a retry.
C5_Witness ==
    /\ AllDone
    /\ \E t \in Tasks : task[t].exit \in ExceptionExits
    /\ \E t \in Tasks : task[t].attempts >= 2

\* C6: RateLimited is always retried.  No call returns as the outcome of a 429
\* response: the last status seen by a finished call is never 429.
C6_ThrottleNeverDropped ==
    \A t \in Tasks : task[t].pc = "done" => task[t].status # 429

NoDuplicates(seq) ==
    \A i, j \in 1..Len(seq) : i # j => seq[i] # seq[j]
IdsOf(seq) == {seq[i] : i \in 1..Len(seq)}

\* C8: dedup invariant.  The ID list returned by a Segmented run holds no ID
\* twice, whatever the yearly listings hold.
C8_DedupInvariant ==
    (strategy = "segmented" /\ dpc = "done") => NoDuplicates(output)

\* A Segmented run has returned an ID that two yearly listings hold, and
\* has read the first page of both years.
C8_Witness ==
    /\ strategy = "segmented"
    /\ dpc = "done"
    /\ requested[1][1] = 1
    /\ requested[2][1] = 1
    /\ \E id \in IdsOf(output) :
          \A y \in Years :
              id \in IdsOf(PagePayload(listing[y], 1).results)

\* The partitions of a strategy's listing queries.
NumPartitions == IF strategy = "segmented" THEN NumYears ELSE 1

\* C9: ceiling invariant.  The list returned by a run of any strategy is no
\* longer than targetCount, and for the listing-based strategies no longer
\* than pageSize x maxPages x numPartitions.
C9_CeilingInvariant ==
    dpc = "done" =>
        /\ Len(output) <= target_count
        /\ strategy \in {"direct", "segmented", "series"}
           => Len(output) <= ITEMS_PER_PAGE * MAX_PAGES * NumPartitions

\* A Segmented run that was asked for more than the listings can give and
\* returned pageSize x maxPages IDs for every partition.
C9_Witness ==
    /\ strategy = "segmented"
    /\ dpc = "done"
    /\ target_count > ITEMS_PER_PAGE * MAX_PAGES * NumYears
    /\ Len(output) = ITEMS_PER_PAGE * MAX_PAGES * NumYears

\* The IDs of the pages lo..hi that were fetched successfully, in ascending
\* page order.
RECURSIVE ConcatFetched(_, _)
ConcatFetched(lo, hi) ==
    IF lo > hi THEN <<>>
    ELSE (IF pages[lo] = "ok" THEN PagePayload(catalog, lo).results
          ELSE <<>>)
         \o ConcatFetched(lo + 1, hi)

\* C10: Direct discovery requests exactly the pages
\* 1..min(ceil(targetCount/pageSize), maxPages), each once, and returns the
\* first targetCount IDs of the successfully fetched pages taken in
\* ascending page order, in whatever order the requests complete.
C10_DirectPages ==
    strategy = "direct" =>
        /\ dpc # "start" =>
             \A p \in Pages :
                 requested[1][p] =
                     IF p <= Min(CeilDiv(target_count, ITEMS_PER_PAGE),
                                 MAX_PAGES)
                     THEN 1 ELSE 0
        /\ dpc = "done" =>
             LET all == ConcatFetched(1, MAX_PAGES) IN
             output = SubSeq(all, 1, Min(target_count, Len(all)))

\* targetCount is one page and a part of the next, both pages are full: two
\* pages were requested and the list ends with the first items of page 2.
C10_Witness ==
    /\ strategy = "direct"
    /\ dpc = "done"
    /\ target_count > ITEMS_PER_PAGE
    /\ target_count < 2 * ITEMS_PER_PAGE
    /\ requested[1][1] + requested[1][2] = 2
    /\ Len(output) = target_count
    /\ output[target_count] =
           PagePayload(catalog, 2).results[target_count - ITEMS_PER_PAGE]

\* The IDs within reach of the run: those on pages 1..MAX_PAGES of each
\* year's listing, oldest year first.
RECURSIVE ReachableIds(_)
ReachableIds(y) ==
    IF y > year_to THEN <<>>
    ELSE SubSeq(listing[y], 1,
                Min(Len(listing[y]), MAX_PAGES * ITEMS_PER_PAGE))
         \o ReachableIds(y + 1)

\* C11: Segmented shortfall absorption.  When no page request failed, the
\* yearly listings hold distinct IDs, some year holds fewer IDs than its share
\* ceil(targetCount / numPartitions) and the years together hold at least
\* targetCount IDs within reach, the run returns targetCount IDs.
C11_ShortfallAbsorbed ==
    ( /\ strategy = "segmented"
      /\ dpc = "done"
      /\ ~fetch_failed
      /\ NoDuplicates(ReachableIds(year_from))
      /\ \E y \in Years : Len(listing[y]) < CeilDiv(target_count, NumYears)
      /\ Len(ReachableIds(year_from)) >= target_count )
    => Len(output) = target_count

\* HTTP requests for listing pages in flight, and ConnectionGate slots taken.
PagesInFlight == Cardinality({p \in Pages : pages[p] = "pending"})
SlotsInUse == MAX_CONCURRENT - semaphore

\* C12: discovery is bounded by the ConnectionGate.  In a Direct or Segmented
\* run every listing-page request in flight holds a slot of the gate, and no
\* more than MAX_CONCURRENT page requests are in flight.
C12_DiscoveryGated ==
    strategy \in {"direct", "segmented"} =>
        /\ PagesInFlight <= SlotsInUse
        /\ PagesInFlight <= MAX_CONCURRENT

\* ----------------------------------------------------------- claims, SpecLoad
\* The rows of the transaction's tables that this invocation has written:
\* the rows it updated carry its NOW(), the rows it inserted were not in the
\* store when it began.
WrittenSeasons ==
    {r \in db.seasons :
        \/ r.updated_at = Now
        \/ ~\E o \in store_before.seasons : SameSeason(o, r)}
WrittenEpisodes ==
    {r \in db.episodes :
        \/ r.updated_at = Now
        \/ ~\E o \in store_before.episodes : SameEpisode(o, r)}
WrittenTranslations(t) ==
    {r \in db[t] :
        \/ r.updated_at = Now
        \/ ~\E o \in store_before[t] :
              o.parent_id = r.parent_id /\ o.locale = r.locale}

C15_AllOrNothing ==
    /\ lpc # "done" => store = store_before /\ commits = 0
    /\ lpc = "done" =>
          IF raised
          THEN commits = 0 /\ rollbacks = 1 /\ store = store_before
          ELSE commits = 1 /\ rollbacks = 0

\* A step failed after the content and the seasons had been loaded, and the
\* invocation is over.
C15_Witness ==
    /\ lpc = "done"
    /\ raised
    /\ Loaded("seasons", data.seasons, data.seasons) \in report
    /\ data.seasons # <<>>
    /\ store = store_before

\* A table without its updated_at column.
Unstamped(table) ==
    {[f \in (DOMAIN r) \ {"updated_at"} |-> r[f]] : r \in table}
Tables == DOMAIN EmptyStore
\* The same row set has just been applied again, to the store it had been
\* applied to before.
AppliedAgain ==
    /\ lpc = "done"
    /\ ~raised
    /\ upstream # NoRows
    /\ data = upstream
    /\ store_before # EmptyStore

C18_BatchKeepsSuccesses ==
    AllDone =>
        LET out == FetchMoviesBatch(task) IN
        /\ \A t \in Tasks :
              Occurrences(out, t) = IF task[t].exit = "success" THEN 1 ELSE 0
        /\ \A i, j \in DOMAIN out : i < j => out[i] < out[j]

\* A batch whose first item ended with an exception and whose last item is
\* the only one returned.
C18_Witness ==
    /\ AllDone
    /\ task[1].exit \in ExceptionExits
    /\ task[NumTasks].exit = "success"
    /\ FetchMoviesBatch(task) = <<NumTasks>>

\* ------------------------------------------------------------ claims, SpecGates
\* C17: fresh gates per top-level run.  No client's semaphore and
\* request-time window are used inside two different asyncio.run
\* invocations.
C17_FreshGates ==
    \A u1, u2 \in gate_use : u1[1] = u2[1] => u1[2] = u2[2]

\* ------------------------------------------------------------ claims, SpecFan
\* C19: the expensive mode is gated.  With load_episodes false no
\* per-episode translation request is issued at any time; with it true,
\* when fetch_series_full_data ends, exactly one translation request has
\* been issued for every (series, season, episode) triple of the episodes a
\* season fetch returned, and none for any other triple.
C19_ExpensiveModeGated ==
    /\ ~load_episodes =>
          \A t \in AllTriples : translation_requests[t] = 0
    /\ (load_episodes /\ fpc = "done") =>
          \A t \in AllTriples :
              translation_requests[t] = IF t \in returned THEN 1 ELSE 0

\* A season fetch has returned episodes and their translations have been
\* requested, one of the seasons having been fetched twice.
C19_Witness ==
    /\ load_episodes
    /\ fpc = "done"
    /\ \E p \in AllPairs : season_requests[p] = 2
    /\ \E t \in AllTriples : translation_requests[t] = 1
    /\ \E t \in AllTriples : t \notin returned

\* C20: second-level fan-out.  When fetch_series_full_data ends, one season
\* sub-request has been issued for every (series, season) pair of every
\* series fetched, whatever load_episodes is.
C20_SeasonPerPairAlways ==
    fpc = "done" =>
        \A p \in AllPairs :
            Occurrences(series_data, p[1]) > 0 => season_requests[p] = 1

\* C20, as the code has it: season sub-requests are issued only when
\* load_episodes is true and only for seasons numbered above 0, one for
\* every such season of every record fetched (a series fetched twice has
\* its seasons requested twice); otherwise none is issued.
C20_SeasonPerPairIfEpisodes ==
    fpc = "done" =>
        \A p \in AllPairs :
            season_requests[p] =
                IF load_episodes /\ p[2] > 0
                THEN Occurrences(series_data, p[1])
                ELSE 0

\* A series with a specials season was fetched in the expensive mode, and
\* another run ended in the cheap mode with a series fetched.
C20_Witness ==
    /\ fpc = "done"
    /\ load_episodes
    /\ Occurrences(series_data, 1) > 0
    /\ season_requests[<<1, 1>>] = 1
    /\ season_requests[<<1, 0>>] = 0

\* ------------------------------------------------------------ claims, SpecOrch
\* The stages that failed.
Failed == {errors[i] : i \in DOMAIN errors}

\* C21: sibling stages are independent.  Once the dictionaries stage has
\* succeeded, run_all does not return before the movies stage, the series
\* stage and, when enabled, the persons stage have been started, whichever
\* of them failed; and a stage that failed is followed by the next one.
C21_SiblingsIndependent ==
    /\ (opc = "returned" /\ DictionariesOk(success_count)) =>
          /\ {"Movies", "Series"} \subseteq started
          /\ load_persons => "Persons" \in started
    /\ ("Movies" \in Failed /\ opc # "Series") => "Series" \in started
    /\ ("Series" \in Failed /\ load_persons /\ opc # "Persons")
          => "Persons" \in started

\* The movies and the series stage both failed and the persons stage ran.
C21_Witness ==
    /\ opc = "returned"
    /\ {"Movies", "Series"} \subseteq Failed
    /\ "Persons" \in started

\* C22: a dictionaries failure is fatal.  If one of the four dictionary
\* loaders failed, none of the movies, series and persons stages is ever
\* started, and run_all returns False.
C22_DictionariesFatal ==
    (Failed \cap DictNames # {}) =>
        /\ started \cap LaterNames = {}
        /\ opc \in DictNames \cup {"dictionaries", "returned"}
        /\ opc = "returned" => run_result = <<FALSE>>

\* The first dictionary loader failed, the other three ran, and run_all
\* returned.
C22_Witness ==
    /\ opc = "returned"
    /\ Failed = {"Genres"}
    /\ DictNames \subseteq started
    /\ success_count = Len(DictStages) - 1

\* C23: end-of-run summary.  When run_all has returned, the final report
\* with the recorded stage errors and the elapsed time has been printed.
C23_ReportBeforeReturn ==
    opc = "returned" =>
        final_report = <<[elapsed |-> wall - start_time, errors |-> errors]>>

\* ------------------------------------------------------------ claims, SpecConfig
\* C24: configuration errors precede network activity.  When the strategy
\* name is unknown or the bearer token is missing, the movie or series
\* loader issues no HTTP request and commits nothing, and once the stage has
\* ended it is recorded as failed.
C24_ConfigErrorsFirst ==
    (~cfg_token \/ ~KnownStrategy(cfg_kind, cfg_strategy)) =>
        /\ http_sent = 0
        /\ rows_written = 0
        /\ cfg_conn # "committed"
        /\ cpc \notin {"fetch", "load", "completed"}
        /\ cpc = "failed" => stage_failed

\* A series stage without the token has opened its transaction, raised in
\* extract and been rolled back and recorded.
C24_Witness ==
    /\ cfg_kind = "series"
    /\ ~cfg_token
    /\ cpc = "failed"
    /\ cfg_conn = "rolled back"
    /\ stage_failed

\* ------------------------------------------------------------ claims, SpecExport
\* The dates requested by this run, in order.
ProbedDates == [i \in DOMAIN probes |-> probes[i].date]

\* C25: bounded snapshot probing.  The download requests the candidate dates
\* today, today-1, ... in that order and at most max_retries of them, the
\* loop index never passes max_retries, and a run in which no candidate was
\* cached and none answered 200 returns no file and ends with RuntimeError.
C25_BoundedProbing ==
    /\ Len(probes) <= max_retries
    /\ days_back <= max_retries
    /\ \A i \in DOMAIN probes : probes[i].date = CandidateDate(today, i - 1)
    /\ epc = "done" =>
          /\ export_raised <=> export_file = <<>>
          /\ export_file = <<>> <=>
                /\ Len(probes) = max_retries
                /\ \A i \in DOMAIN probes :
                      /\ probes[i].answer # "200"
                      /\ probes[i].date \notin cache_before

\* Every candidate was requested, none answered 200, and the run raised.
C25_Witness ==
    /\ epc = "done"
    /\ export_raised
    /\ Len(probes) = max_retries
    /\ \E i \in DOMAIN probes : probes[i].answer = "403"
    /\ \E i \in DOMAIN probes : probes[i].answer = "neterror"

\* The date d was downloaded by an earlier run and is the first candidate
\* of this run that is available: no newer candidate is cached or answers
\* 200.
FirstAvailable(d) ==
    /\ d \in cache_before \ partial
    /\ today - max_retries < d
    /\ d <= today
    /\ \A c \in (d + 1)..today :
          /\ c \notin cache_before
          /\ \A i \in DOMAIN probes :
                probes[i].date = c => probes[i].answer \notin {"200", "cut"}

\* C26: snapshot cache reuse.  A run for which a date downloaded by an
\* earlier run is the first available candidate returns the file of that
\* date and issues no HTTP request for it.
C26_CacheReuse ==
    \A d \in cache_before :
        (epc \in {"returned", "done"} /\ FirstAvailable(d)) =>
            /\ export_file = <<d>>
            /\ \A i \in DOMAIN probes : probes[i].date # d

\* A run on the day after the download asked for the new day's file, was
\* refused, and returned yesterday's file.
C26_Witness ==
    /\ epc = "done"
    /\ export_runs = 2
    /\ export_file = <<today - 1>>
    /\ FirstAvailable(today - 1)
    /\ Len(probes) = 1

\* ------------------------------------------------------------ claims, SpecDisc
\* The lines of the snapshot that are entries passing all filters; the
\* entry of line i has id i.
Accepted ==
    {i \in DOMAIN snapshot :
        /\ snapshot[i].kind = "item"
        /\ snapshot[i].popularity >= min_popularity
        /\ ~(exclude_adult /\ snapshot[i].flag = "adult")
        /\ ~(exclude_video /\ snapshot[i].flag = "video")}

\* C27: BulkExport selection.  For every content of the snapshot that was
\* found, get_movie_ids returns the IDs of the entries that pass all
\* filters, by popularity descending, truncated to target_count; the lines
\* that are not entries are skipped and change nothing for the others.
C27_ExportSelection ==
    (strategy = "export" /\ dpc \in {"done", "raised"}) =>
        /\ dpc = "done"
        /\ NoDuplicates(output)
        /\ IdsOf(output) \subseteq Accepted
        /\ Len(output) = Min(target_count, Cardinality(Accepted))
        /\ \A k, m \in DOMAIN output :
              k < m => snapshot[output[k]].popularity
                          >= snapshot[output[m]].popularity
        /\ \A a \in Accepted \ IdsOf(output), k \in DOMAIN output :
              snapshot[output[k]].popularity >= snapshot[a].popularity

\* ------------------------------------------------------------ claims, SpecRate
\* C28: RateGate re-check.  A caller of _rate_limit() that found the window
\* full and suspended is granted, when its sleep is over, only if fewer than
\* REQUESTS_PER_SECOND grants lie in the trailing second at that moment,
\* also when several callers were suspended at the same time.
C28_RecheckAfterSleep ==
    [][\A c \in Callers :
          (rl[c].pc = "sleeping" /\ rl'[c].pc = "idle") =>
              Len(InWindow(grants, clock)) < REQUESTS_PER_SECOND]_vars

\* ------------------------------------------------------------ claims, SpecReq
\* Call t sends a GET in this step: an attempt, the first or a retry, begins.
GetIssued(t) == task'[t].attempts = task[t].attempts + 1

\* C29: gate ordering.  Every GET of _request, on the first attempt and on
\* every retry, is sent by a frame that has taken a ConnectionGate slot of
\* its own and, after that, has come back from _rate_limit(): either at once,
\* its `now` being the last entry of request_times, or after the sleep,
\* request_times being its `now` alone.  No GET is sent without a held slot.
C29_GateOrdering ==
    [][\A t \in Tasks : GetIssued(t) =>
          /\ task'[t].pc = "get"
          /\ task'[t].depth = task'[t].attempts
          /\ semaphore' >= 0
          /\ \/ /\ task[t].pc = "acquire"
                /\ task'[t].depth = task[t].depth + 1
                /\ semaphore' = semaphore - 1
                /\ request_times' # <<>>
                /\ request_times'[Len(request_times')] = clock
             \/ /\ task[t].pc = "rate_sleep"
                /\ task'[t].depth = task[t].depth
                /\ semaphore' = semaphore
                /\ clock >= task[t].wake
                /\ request_times' = <<task[t].now>>]_vars

\* The GET of a retry is in flight: the call holds the slot of its first
\* frame and the slot of the frame that retries, and no slot is left.
C29_Witness ==
    \E t \in Tasks :
        /\ task[t].pc = "get"
        /\ task[t].attempts = 2
        /\ task[t].depth = 2
        /\ semaphore = 0
        /\ request_times # <<>>

\* The attempt of call t that was in flight ends in this step.
AttemptEnds(t) == task[t].pc = "get" /\ task'[t].pc # "get"

\* C30 as stated: response classification.  An attempt that receives 200
\* makes the call return the parsed payload; one that receives 404 or any
\* status other than 200 and 429 makes it return None after that attempt,
\* with no retry; a call that returns yields one of the two outcomes.
C30_OkReturnsPayload ==
    [][\A t \in Tasks : AttemptEnds(t) =>
          /\ task'[t].status = 200 =>
                /\ task'[t].pc = "done"
                /\ task'[t].result = "payload"
          /\ task'[t].status \notin {0, 200, 429} =>
                /\ task'[t].pc = "done"
                /\ task'[t].attempts = task[t].attempts
                /\ task'[t].result = "None"
          /\ task'[t].pc = "done" =>
                task'[t].result \in {"payload", "None"}]_vars

\* C30 as amended: an attempt that receives 200 makes the call return the
\* parsed payload when the body parses, and None, with no retry, when
\* response.json() raises; 404 and every status other than 200 and 429 make
\* it return None after that attempt, with no retry; a call that returns
\* yields one of the two outcomes.
C30_ResponseClassification ==
    [][\A t \in Tasks : AttemptEnds(t) =>
          /\ task'[t].status = 200 =>
                /\ task'[t].pc = "done"
                /\ task'[t].attempts = task[t].attempts
                /\ task'[t].exit \in {"success", "parse_error"}
                /\ task'[t].result =
                      IF task'[t].exit = "parse_error" THEN "None"
                      ELSE "payload"
          /\ task'[t].status \notin {0, 200, 429} =>
                /\ task'[t].pc = "done"
                /\ task'[t].attempts = task[t].attempts
                /\ task'[t].result = "None"
          /\ task'[t].pc = "done" =>
                task'[t].result \in {"payload", "None"}]_vars

\* A call dropped by a 404 on its retry, after one 429, next to a call
\* dropped by a 200 whose body did not parse.
C30_Witness ==
    \E t, u \in Tasks :
        /\ task[t].pc = "done" /\ task[t].status = 404
        /\ task[t].attempts = 2 /\ task[t].result = "None"
        /\ task[u].pc = "done" /\ task[u].status = 200
        /\ task[u].exit = "parse_error" /\ task[u].result = "None"

\* ------------------------------------------------------------ claims, SpecDisc
\* No request was issued for partition i.
Untouched(i) == \A p \in Pages : requested[i][p] = 0

\* C31: Segmented partition order and early stop.  The partitions are the
\* years from year_to down to year_from, strictly descending; while one is
\* processed no later one has been asked for anything; and once movie_ids
\* holds target_count IDs no request is issued for a remaining partition.
C31_OrderAndEarlyStop ==
    strategy = "segmented" =>
        /\ YearSegments[1] = year_to
        /\ YearSegments[NumYears] = year_from
        /\ \A i, j \in 1..NumYears :
              i < j => YearSegments[i] > YearSegments[j]
        /\ \A i \in 1..NumYears : i > year_pos => Untouched(i)
        /\ \A p \in Pages : pages[p] = "pending" => year_pos <= NumYears
        /\ Len(movie_ids) >= target_count =>
              \A i \in year_pos..NumYears : Untouched(i)

\* A run has returned its target from the newest year alone and has left the
\* older year unasked.
C31_Witness ==
    /\ strategy = "segmented"
    /\ dpc = "done"
    /\ target_count > 0
    /\ Len(output) = target_count
    /\ year_pos <= NumYears
    /\ requested[1][1] >= 1
    /\ Untouched(NumYears)

\* ------------------------------------------------------------ claims, SpecLoad
\* The tables that reference a table by foreign key.
ChildrenOf(t) ==
    CASE t = "content" -> {"series_details", "seasons",
                           "season_translations", "episodes",
                           "episode_translations"}
      [] t = "seasons" -> {"season_translations", "episodes",
                           "episode_translations"}
      [] t = "episodes" -> {"episode_translations"}
      [] OTHER -> {}

\* A step of _load_all_tables writes rows of table t.
Writes(t) == lpc \notin {"exit", "idle", "done"} /\ db'[t] # db[t]

C33_KeyMapExact ==
    kpc = "loaded" =>
        /\ DOMAIN key_map =
              {<<key_rows[i].content_id, key_rows[i].season_number>> :
                  i \in DOMAIN key_rows}
        /\ \A i \in DOMAIN key_rows :
              LET key == <<key_rows[i].content_id,
                           key_rows[i].season_number>> IN
              /\ key_map[key] = ReturnedIds(key_before, key_rows, 1)[i]
              /\ \E r \in key_table :
                    /\ <<r.content_id, r.season_number>> = key
                    /\ r.id = key_map[key]
              /\ \A r, q \in key_table :
                    (<<r.content_id, r.season_number>> = key
                     /\ <<q.content_id, q.season_number>> = key) => r = q

\* The step has loaded a list that names a season twice, a season that was
\* stored before and a season that is new.
C33_Witness ==
    /\ kpc = "loaded"
    /\ \E i, j \in DOMAIN key_rows : i # j /\ key_rows[i] = key_rows[j]
    /\ \E i \in DOMAIN key_rows :
          \E r \in key_before : SameSeason(r, key_rows[i])
    /\ \E i \in DOMAIN key_rows :
          \A r \in key_before : ~SameSeason(r, key_rows[i])
    /\ Cardinality(DOMAIN key_map) = 2

\* ------------------------------------------------------------ claims, SpecDisc
\* C34: the seen-set lives for one discovery run.  A second get_movie_ids()
\* on the same Segmented strategy object, against the same upstream content
\* and with no failed page request, returns the ID list the first returned.
C34_SecondRunSame ==
    ( /\ strategy = "segmented"
      /\ dpc = "done"
      /\ disc_runs = 2
      /\ ~fetch_failed )
    => output = first_output[1]

\* ------------------------------------------------------------ claims, SpecReq
\* C35: one logical fetch holds at most one ConnectionGate slot.  Across its
\* first attempt, its 429 backoff sleeps and its retries, a _request call
\* started by a caller never holds two or more slots at the same time.
C35_OneSlotPerCall == \A t \in Tasks : task[t].depth <= 1

\* ------------------------------------------------------------ claims, SpecRate
\* C36: RateGate bookkeeping is complete.  In every state, request_times
\* holds one timestamp for every acquisition granted less than a second ago,
\* and every timestamp of it that lies in the window is the time of such a
\* grant: for every time in the trailing second, as many entries as grants.
C36_BookkeepingComplete ==
    \A v \in 0..MaxTime :
        clock - v < TicksPerSecond =>
            Occurrences(request_times, v)
                = Occurrences(InWindow(grants, clock), v)

\* ------------------------------------------------------------ claims, SpecExport
\* C37: cached snapshots are complete.  Every file the download returns, in
\* the run that downloaded it or in a later run that finds it in the cache,
\* is a file whose download finished; a download cut short by a network
\* error leaves no file that a later probe returns as cached.
C37_ReturnedFileComplete ==
    \A d \in 0..(max_retries + MaxDays) :
        export_file = <<d>> => d \notin partial

\* ------------------------------------------------------------ claims, SpecOrch
\* C38: orchestrator result.  Whatever a stage's loader raised, run_stage
\* returned and run_all went on or returned; self.errors holds one entry for
\* every stage whose loader raised and none for the others; and run_all
\* returns True exactly when no stage that was started has failed.
C38_OrchestratorResult ==
    /\ raised_in \subseteq started
    /\ Len(errors) = Cardinality(raised_in)
    /\ \A n \in started :
          Occurrences(errors, n) = IF n \in raised_in THEN 1 ELSE 0
    /\ opc = "returned" =>
          /\ run_result \in {<<TRUE>>, <<FALSE>>}
          /\ run_result = <<TRUE>> <=> started \cap raised_in = {}

\* run_all has returned False after the dictionaries and the movies stage
\* succeeded and the series stage failed.
C38_Witness ==
    /\ opc = "returned"
    /\ run_result = <<FALSE>>
    /\ raised_in = {"Series"}
    /\ errors = <<"Series">>
    /\ "Movies" \in started

\* ------------------------------------------------------------ claims, SpecFan
NoSeasonRequest == \A p \in AllPairs : season_requests[p] = 0
NoTranslationRequest == \A t \in AllTriples : translation_requests[t] = 0

\* C39: fan-out phase ordering with load_episodes on.  No season request is
\* issued before the gather of the series requests has returned, no
\* episode-translation request before the gather of the last season batch
\* has returned, and a translation result is written only to the episode it
\* was requested for, whatever order the requests of a gather ended in.
C39_PhaseOrdering ==
    load_episodes =>
        /\ fpc \in {"start", "series"} =>
              NoSeasonRequest /\ NoTranslationRequest
        /\ fpc \in {"season_batch", "seasons"} => NoTranslationRequest
        /\ \A w \in written : w.episode = w.from

\* The translations of two episodes of one gather have been written, the
\* answer for the second episode having come before the answer for the first.
C39_Witness ==
    /\ load_episodes
    /\ fpc = "done"
    /\ \E w, v \in written :
          /\ w.episode = <<1, 1, 1>>
          /\ v.episode = <<1, 1, 2>>
          /\ w.rank > v.rank

====
